---- MODULE Spec2Model ----
(***************************************************************************)
(* fluent-query: the dual-mode ArrayQuery pipeline core (bound / unbound), *)
(* its step log, replay (run), recipe extraction (toRecipe) and the        *)
(* WhereBuilder that feeds it clauses.                                     *)
(*                                                                         *)
(* The JavaScript heap is modelled explicitly: `objs` holds the objects    *)
(* the caller can still reach (ArrayQuery instances, QueryResult arrays,   *)
(* concrete terminal values and thrown errors), `logs` holds the step-log  *)
(* arrays they reference (an ArrayQuery's `steps` field is an index into   *)
(* `logs`, so two instances sharing one array is expressible), and `hist`  *)
(* is a ghost record of the calls the caller made.                         *)
(***************************************************************************)
EXTENDS Integers, Sequences, FiniteSets, TLC

VARIABLES objs, logs, hist

vars == <<objs, logs, hist>>

\* Largest number of objects the caller holds on to.
MaxObjs == 4
\* Largest number of comparisons in a filter expression, and of objects held
\* while filter expressions are tried.
MaxAtoms == 3
MaxFilterObjs == 3

----------------------------------------------------------------------------
(* JavaScript values.  Every value is a one-field record whose field name  *)
(* is its type tag, so values of different types compare unequal.          *)

Num(n) == [n |-> n]
Str(s) == [s |-> s]
Null == [null |-> TRUE]
Undef == [undef |-> TRUE]
Obj(r) == [o |-> r]
Arr(q) == [a |-> q]
Bool(b) == [b |-> b]
NaN == [nan |-> TRUE]
\* An object literal evaluated by the caller: the object at address `at`.
\* Two objects with the same fields at different addresses are different
\* objects.
Rec(at, r) == [o |-> r, at |-> at]

\* x === y (objects carry their address; NaN equals nothing).
StrictEquals(x, y) == x = y /\ x # NaN

IsNum(v) == "n" \in DOMAIN v
IsStr(v) == "s" \in DOMAIN v
IsObj(v) == "o" \in DOMAIN v
IsArr(v) == "a" \in DOMAIN v
\* `v == null` in JavaScript: null or undefined.
IsNullish(v) == v = Null \/ v = Undef

\* An optional field (`x: T | undefined` of an object): <<>> or <<x>>.
Undefined == <<>>
Some(x) == <<x>>
IsDefined(opt) == opt # <<>>
Get(opt) == opt[1]

\* Body(e), with e evaluated once and bound as a value.
Eager(e, Body(_)) == CHOOSE out \in {Body(x) : x \in {e}} : TRUE

\* A thrown error / a returned value, as the outcome of a helper.
Ok(v) == [ok |-> TRUE, v |-> v]
Err(msg) == [ok |-> FALSE, err |-> msg]

----------------------------------------------------------------------------
(* Paths.  A path string "a.b[2]" is kept as the list of its "."-separated *)
(* segments, each a key with an optional bracket index; "" is <<>>.        *)

Seg(key) == [key |-> key, idx |-> Undefined]
SegAt(key, i) == [key |-> key, idx |-> Some(i)]
P(key) == <<Seg(key)>>

\* Object.prototype.hasOwnProperty.call(current, segment)
HasOwn(v, key) == IsObj(v) /\ key \in DOMAIN v.o

\* (current as any)[key]
Prop(v, key) == IF HasOwn(v, key) THEN v.o[key] ELSE Undef

RECURSIVE getByPathFrom(_, _, _)
getByPathFrom(current, path, i) ==
  IF i > Len(path) THEN Ok(current)
  ELSE IF IsNullish(current) THEN Err("null/undefined at segment")
  ELSE LET seg == path[i] IN
    IF IsDefined(seg.idx)
    THEN LET coll == Prop(current, seg.key) IN
         IF IsNullish(coll) THEN Err("null/undefined at key")
         ELSE IF ~IsArr(coll) THEN Err("is not an array")
         ELSE IF Get(seg.idx) < 0 \/ Get(seg.idx) >= Len(coll.a)
              THEN Err("index out of bounds")
         ELSE getByPathFrom(coll.a[Get(seg.idx) + 1], path, i + 1)
    ELSE IF ~HasOwn(current, seg.key) THEN Err("property not found")
    ELSE getByPathFrom(current.o[seg.key], path, i + 1)

\* Lenient resolution: an explicitly present undefined leaf is a result.
getByPath(obj, path) ==
  IF path = <<>> THEN Ok(obj) ELSE getByPathFrom(obj, path, 1)

RECURSIVE getByPathStrictFrom(_, _, _)
getByPathStrictFrom(current, path, i) ==
  IF i > Len(path) THEN Ok(current)
  ELSE IF IsNullish(current) THEN Err("null/undefined at segment")
  ELSE LET seg == path[i] IN
    IF IsDefined(seg.idx)
    THEN LET coll == Prop(current, seg.key) IN
         IF IsNullish(coll) THEN Err("null/undefined at key")
         ELSE IF ~IsArr(coll) THEN Err("is not an array")
         ELSE IF Get(seg.idx) < 0 \/ Get(seg.idx) >= Len(coll.a)
              THEN Err("index out of bounds")
         ELSE IF coll.a[Get(seg.idx) + 1] = Undef THEN Err("index out of bounds")
         ELSE getByPathStrictFrom(coll.a[Get(seg.idx) + 1], path, i + 1)
    ELSE IF ~HasOwn(current, seg.key) THEN Err("property not found")
    ELSE IF current.o[seg.key] = Undef THEN Err("property not found")
    ELSE getByPathStrictFrom(current.o[seg.key], path, i + 1)

\* getByPathStrict that lets an undefined leaf through.
getByPathStrictSparingLeaf(obj, path) ==
  IF path = <<>> THEN Ok(obj) ELSE getByPathFrom(obj, path, 1)

\* Strict resolution: any undefined on the way, the leaf included, throws.
getByPathStrict(obj, path) ==
  IF path = <<>> THEN Ok(obj) ELSE getByPathStrictFrom(obj, path, 1)

----------------------------------------------------------------------------
(* Regular expressions built by makeRegex, and the match objects handed to *)
(* the predicate matcher.                                                  *)

\* String.prototype.toLowerCase on the strings of the model.
Lower(s) ==
  CASE s = "Premium" -> "premium"
    [] s = "PREMIUM" -> "premium"
    [] s = "Basic" -> "basic"
    [] s = "BASIC" -> "basic"
    [] s = "Pre" -> "pre"
    [] s = "Basic and Premium" -> "basic and premium"
    [] OTHER -> s

\* String.prototype.trim on the strings of the model.
Trim(s) ==
  CASE s = " Premium " -> "Premium"
    [] s = " Basic " -> "Basic"
    [] OTHER -> s

\* new RegExp(pattern, flags) for the escaped literal `raw` in `mode`.
makeRegex(value, mode, opts) ==
  [src |-> IF opts.trim THEN Trim(value) ELSE value,
   mode |-> mode,
   i |-> opts.caseInsensitive]

\* Whether the string t occurs in the string s.
Includes(s, t) ==
  \E i \in 1..(Len(s) - Len(t) + 1) : SubSeq(s, i, i + Len(t) - 1) = t

\* regex.test(s): the pattern anchored at both ends ("exact"), at the start,
\* at the end, or not at all.
RegexTest(re, s) ==
  LET subject == IF re.i THEN Lower(s) ELSE s
      pattern == IF re.i THEN Lower(re.src) ELSE re.src
  IN CASE re.mode = "contains" -> Includes(subject, pattern)
       [] re.mode = "startswith" ->
            Len(pattern) <= Len(subject) /\ SubSeq(subject, 1, Len(pattern)) = pattern
       [] re.mode = "endswith" ->
            /\ Len(pattern) <= Len(subject)
            /\ SubSeq(subject, Len(subject) - Len(pattern) + 1, Len(subject)) = pattern
       [] OTHER -> subject = pattern

\* The matcher's own (lenient) field lookup: a missing field is undefined.
RECURSIVE SiftGet(_, _, _)
SiftGet(v, path, i) ==
  IF i > Len(path) THEN v
  ELSE IF ~HasOwn(v, path[i].key) THEN Undef
  ELSE SiftGet(v.o[path[i].key], path, i + 1)

\* One operator of a match object against the field value v.
TestOp(op, arg, v) ==
  CASE op = "$regex" -> IsStr(v) /\ RegexTest(arg, v.s)
    [] op = "$not" -> ~(IsStr(v) /\ RegexTest(arg, v.s))
    [] op = "$eq" -> v = arg
    [] op = "$ne" -> v # arg
    [] op = "$gt" -> IsNum(v) /\ v.n > arg.n
    [] op = "$gte" -> IsNum(v) /\ v.n >= arg.n
    [] op = "$lt" -> IsNum(v) /\ v.n < arg.n
    [] op = "$lte" -> IsNum(v) /\ v.n <= arg.n
    [] OTHER -> FALSE

\* One match object against one record.
RECURSIVE Matches(_, _)
Matches(clause, item) ==
  IF "and" \in DOMAIN clause
  THEN \A k \in 1..Len(clause.and) : Matches(clause.and[k], item)
  ELSE IF "or" \in DOMAIN clause
  THEN \E k \in 1..Len(clause.or) : Matches(clause.or[k], item)
  ELSE TestOp(clause.op, clause.arg, SiftGet(item, clause.path, 1))

Clause(path, op, arg) == [path |-> path, op |-> op, arg |-> arg]

\* Array.prototype.filter
RECURSIVE FilterSeq(_, _)
FilterSeq(items, clause) ==
  IF items = <<>> THEN <<>>
  ELSE IF Matches(clause, Head(items))
       THEN <<Head(items)>> \o FilterSeq(Tail(items), clause)
       ELSE FilterSeq(Tail(items), clause)

----------------------------------------------------------------------------
(* The heap.  H is a record [objs, logs]: objs holds the objects and logs  *)
(* the arrays they reference (step logs and item arrays, each under its    *)
(* own reference).  An operation returns the heap it leaves and `ret`, the *)
(* index in objs of what it returned or threw.                             *)

Heap == [objs |-> objs, logs |-> logs]

\* A fresh array holding `content`; its reference is LastLog of the result.
AllocLog(H, content) == [objs |-> H.objs, logs |-> Append(H.logs, content)]
LastLog(H) == Len(H.logs)

\* An array that lives in the heap, as a value: the reference of the array.
ArrRef(ref) == [ar |-> ref]
IsArrRef(v) == "ar" \in DOMAIN v
\* Array.isArray
IsArray(v) == IsArr(v) \/ IsArrRef(v)

\* The outcome of a private helper that returns an array or throws: the
\* heap it leaves, and the reference of the array or the error message.
OkIn(H, ref) == [objs |-> H.objs, logs |-> H.logs, ok |-> TRUE, ref |-> ref]
ErrIn(H, err) == [objs |-> H.objs, logs |-> H.logs, ok |-> FALSE, err |-> err]

\* What a reference holds when a value that is no array was taken for one:
\* the value itself, set apart from every array (no array has such an
\* element).
NotArray(v) == <<[raw |-> v]>>
IsNotArray(x) == Len(x) = 1 /\ "raw" \in DOMAIN x[1]

\* The reference of the value v taken as an array without a check: that of
\* the array it is (an array literal is a fresh array), or one holding v.
ArrayIn(H, v) ==
  IF IsArrRef(v) THEN OkIn(H, v.ar)
  ELSE IF IsArr(v) THEN OkIn(AllocLog(H, v.a), Len(H.logs) + 1)
  ELSE OkIn(AllocLog(H, NotArray(v)), Len(H.logs) + 1)

New(H, o) ==
  [objs |-> Append(H.objs, o), logs |-> H.logs, ret |-> Len(H.objs) + 1]

\* `throw new Error(msg)`
Throw(H, msg) == New(H, [kind |-> "error", msg |-> msg])
\* A concrete (non-chainable) value returned by a bound terminal.
Value(H, v) == New(H, [kind |-> "value", val |-> v])

IsQuery(H, id) == H.objs[id].kind = "query"
IsBuilder(H, id) == H.objs[id].kind = "builder"
IsBound(H, id) == IsQuery(H, id) /\ IsDefined(H.objs[id].items)
IsUnbound(H, id) == IsQuery(H, id) /\ ~IsDefined(H.objs[id].items)

----------------------------------------------------------------------------
(* ArrayQuery.                                                             *)

\* new ArrayQuery(items, steps, clauses, arrayPath, metadata, sortPath, dir)
ArrayQuery(H, items, steps, clauses, arrayPath, metadata, sortPath, sortDirection) ==
  New(H, [kind |-> "query", items |-> items, steps |-> steps,
          clauses |-> clauses, arrayPath |-> arrayPath, metadata |-> metadata,
          sortPath |-> sortPath, sortDirection |-> sortDirection])

\* metadata?.arrayPath
MetaArrayPath(metadata) ==
  IF IsDefined(metadata) THEN Get(metadata).arrayPath ELSE Undefined

Metadata(arrayPath) ==
  [groupsRootPath |-> Undefined, arrayPath |-> Some(arrayPath),
   itemMetadata |-> Undefined]

\* `items` is the reference of an existing array.
_bound(H, items, metadata) ==
  LET H1 == AllocLog(H, <<>>)
  IN ArrayQuery(H1, Some(items), LastLog(H1), <<>>, MetaArrayPath(metadata),
                metadata, Undefined, "asc")

\* `steps` is the reference of an existing array (steps ?? [] otherwise).
_unbound(H, steps, arrayPath) ==
  LET H1 == IF IsDefined(steps) THEN H ELSE AllocLog(H, <<>>)
      ref == IF IsDefined(steps) THEN Get(steps) ELSE LastLog(H1)
  IN ArrayQuery(H1, Undefined, ref, <<>>, arrayPath, Undefined, Undefined, "asc")

_fromSteps(H, steps, arrayPath) == _unbound(H, Some(steps), arrayPath)

arrayPipeline(H) == _unbound(H, Undefined, Undefined)

\* JsonQueryRoot.array(path)
array(H, root, path) ==
  LET v == getByPath(root, path)
  IN IF ~v.ok THEN Throw(H, v.err)
     ELSE IF ~IsArray(v.v) THEN Throw(H, "Expected array at path")
     ELSE Eager(ArrayIn(H, v.v),
                LAMBDA R : _bound(R, R.ref, Some(Metadata(path))))

\* _appendStep putting the new step in front of the recorded ones.
_prependStep(H, self, step) ==
  LET this == H.objs[self]
      H1 == AllocLog(H, <<step>> \o H.logs[this.steps])
  IN ArrayQuery(H1, this.items, LastLog(H1), this.clauses, this.arrayPath,
                this.metadata, this.sortPath, this.sortDirection)

_appendStep(H, self, step) ==
  LET this == H.objs[self]
      H1 == AllocLog(H, Append(H.logs[this.steps], step))
  IN ArrayQuery(H1, this.items, LastLog(H1), this.clauses, this.arrayPath,
                this.metadata, this.sortPath, this.sortDirection)

_deriveUnbound(H, self, step) ==
  LET this == H.objs[self]
      H1 == AllocLog(H, Append(H.logs[this.steps], step))
  IN ArrayQuery(H1, Undefined, LastLog(H1), <<>>, this.arrayPath,
                Undefined, Undefined, "asc")

\* valueA < valueB on the sort keys of the model (numbers).
JsLess(x, y) == IsNum(x) /\ IsNum(y) /\ x.n < y.n

\* A comparator that never reports a tie: valueA < valueB ? -1 : 1.
SortCompareNoTie(valueA, valueB, sortDirection) ==
  IF IsNullish(valueA) THEN 1
  ELSE IF IsNullish(valueB) THEN 0 - 1
  ELSE LET comparison == IF JsLess(valueA, valueB) THEN 0 - 1 ELSE 1
       IN IF sortDirection = "asc" THEN comparison ELSE 0 - comparison

\* The comparator of _applySorting, on the two resolved sort keys.
SortCompare(valueA, valueB, sortDirection) ==
  IF IsNullish(valueA) THEN (IF IsNullish(valueB) THEN 0 ELSE 1)
  ELSE IF IsNullish(valueB) THEN 0 - 1
  ELSE LET comparison == IF JsLess(valueA, valueB) THEN 0 - 1
                         ELSE IF JsLess(valueB, valueA) THEN 1 ELSE 0
       IN IF sortDirection = "asc" THEN comparison ELSE 0 - comparison

\* Array.prototype.sort is stable: the element at index x goes after every
\* element not above it.  `sorted` is a list of indices, keys[k] the sort key
\* of element k.
RECURSIVE InsertStable(_, _, _, _)
InsertStable(sorted, x, keys, sortDirection) ==
  IF sorted = <<>> THEN <<x>>
  ELSE IF SortCompare(keys[Head(sorted)], keys[x], sortDirection) <= 0
       THEN <<Head(sorted)>> \o InsertStable(Tail(sorted), x, keys, sortDirection)
       ELSE <<x>> \o sorted

RECURSIVE StableSort(_, _, _)
StableSort(n, keys, sortDirection) ==
  IF n = 0 THEN <<>>
  ELSE InsertStable(StableSort(n - 1, keys, sortDirection), n, keys, sortDirection)

\* [...items].sort(comparator) with the keys already resolved: `looked` holds
\* getByPathStrict(item, sortPath) of each item.  The comparator runs (and
\* getByPathStrict may throw) only when there are two or more items.
SortLooked(items, looked, sortDirection) ==
  LET bad == {k \in 1..Len(items) : ~looked[k].ok} IN
  IF Len(items) < 2 THEN Ok(items)
  ELSE IF bad # {} THEN Err(looked[CHOOSE k \in bad : \A j \in bad : k <= j].err)
  ELSE Eager(StableSort(Len(items), [k \in 1..Len(items) |-> looked[k].v],
                        sortDirection),
             LAMBDA order : Ok([k \in 1..Len(items) |-> items[order[k]]]))

\* getByPathStrict(item, sortPath) of each element of an array.
SortKeys(items, sortPath) ==
  [k \in 1..Len(items) |-> getByPathStrict(items[k], sortPath)]

\* _applySorting sorting the array it is given (items.sort(...)) and
\* returning that array.
_applySortingInPlace(H, self, items) ==
  LET this == H.objs[self] IN
  IF ~IsDefined(this.sortPath) \/ Get(this.sortPath) = <<>> THEN OkIn(H, items)
  ELSE Eager(SortLooked(H.logs[items], SortKeys(H.logs[items], Get(this.sortPath)),
                        this.sortDirection),
             LAMBDA sorted :
    IF ~sorted.ok THEN ErrIn(H, sorted.err)
    ELSE OkIn([objs |-> H.objs, logs |-> [H.logs EXCEPT ![items] = sorted.v]],
              items))

\* Applies sort if configured: `items` is the reference of the array to
\* sort; without a sort path that same array is returned, with one a sorted
\* copy ([...items]) is.
_applySorting(H, self, items) ==
  LET this == H.objs[self] IN
  IF ~IsDefined(this.sortPath) \/ Get(this.sortPath) = <<>> THEN OkIn(H, items)
  ELSE IF IsNotArray(H.logs[items]) THEN ErrIn(H, "TypeError")
  ELSE Eager(SortLooked(H.logs[items], SortKeys(H.logs[items], Get(this.sortPath)),
                        this.sortDirection),
             LAMBDA sorted :
    IF ~sorted.ok THEN ErrIn(H, sorted.err)
    ELSE OkIn(AllocLog(H, sorted.v), Len(H.logs) + 1))

\* _executeFilter filtering by the most recent clause alone.
_executeFilterLastClause(H, self) ==
  LET this == H.objs[self]
  IN IF Len(this.clauses) = 0 THEN _applySorting(H, self, Get(this.items))
     ELSE _applySorting(AllocLog(H, FilterSeq(H.logs[Get(this.items)],
                                              this.clauses[Len(this.clauses)])),
                        self, Len(H.logs) + 1)

\* Materializes the filtered + sorted items from the accumulated clauses:
\* the reference of the resulting array, which is this.items itself when
\* there is neither a clause nor a sort.
_executeFilter(H, self) ==
  LET this == H.objs[self]
      combined == IF Len(this.clauses) = 1 THEN this.clauses[1]
                  ELSE [and |-> this.clauses]
  IN IF Len(this.clauses) = 0 THEN _applySorting(H, self, Get(this.items))
     ELSE IF IsNotArray(H.logs[Get(this.items)]) THEN ErrIn(H, "TypeError")
     ELSE _applySorting(AllocLog(H, FilterSeq(H.logs[Get(this.items)], combined)),
                        self, Len(H.logs) + 1)

\* QueryResult.create(items, steps, arrayPath)
QueryResult(H, items, steps, arrayPath) ==
  New(H, [kind |-> "result", elems |-> items, steps |-> steps,
          arrayPath |-> arrayPath])

\* @internal Used by WhereBuilder to append a clause (legacy form, which
\* pushes onto the receiver's own clause list and returns the receiver).
_pushClauseInPlace(H, self, clause) ==
  LET this == H.objs[self]
  IN [objs |-> [H.objs EXCEPT ![self].clauses = Append(@, clause)],
      logs |-> [H.logs EXCEPT ![this.steps] =
                  Append(@, [method |-> "_pushClause", clause |-> clause])],
      ret |-> self]

_pushClause(H, self, clause) ==
  LET this == H.objs[self]
      H1 == AllocLog(H, Append(H.logs[this.steps],
                               [method |-> "_pushClause", clause |-> clause]))
      newClauses == IF IsDefined(this.items) THEN Append(this.clauses, clause)
                    ELSE this.clauses
  IN ArrayQuery(H1, this.items, LastLog(H1), newClauses, this.arrayPath,
                this.metadata, this.sortPath, this.sortDirection)

sort(H, self, path, direction) ==
  LET this == H.objs[self]
      H1 == AllocLog(H, Append(H.logs[this.steps],
              [method |-> "sort", path |-> path, direction |-> direction]))
  IN ArrayQuery(H1, this.items, LastLog(H1), this.clauses, this.arrayPath,
                this.metadata, Some(path), direction)

\* A shallow copy of a record ({...item}): the same fields in a new object.
CopyOf(item) == IF IsObj(item) THEN Obj(item.o) ELSE item

\* all() handing out copies of the records instead of the records.
allCopyingRecords(H, self) ==
  IF ~IsDefined(H.objs[self].items) THEN _appendStep(H, self, [method |-> "all"])
  ELSE Eager(_executeFilter(H, self), LAMBDA R :
    IF ~R.ok THEN Throw(R, R.err)
    ELSE LET H1 == AllocLog(R, Append(R.logs[R.objs[self].steps], [method |-> "all"]))
         IN QueryResult(H1, [k \in 1..Len(R.logs[R.ref]) |-> CopyOf(R.logs[R.ref][k])],
                        LastLog(H1), R.objs[self].arrayPath))

\* What the loop `for (i = 0; i < items.length; i++)` goes through: nothing
\* when items is a number or a plain object, whose length is undefined.
Elements(x) == IF IsNotArray(x) THEN <<>> ELSE x

\* Reading items.length throws when items is null.
LengthThrows(x) == IsNotArray(x) /\ IsNullish(x[1].raw)

all(H, self) ==
  IF ~IsDefined(H.objs[self].items) THEN _appendStep(H, self, [method |-> "all"])
  ELSE Eager(_executeFilter(H, self), LAMBDA R :
    IF ~R.ok THEN Throw(R, R.err)
    ELSE IF LengthThrows(R.logs[R.ref]) THEN Throw(R, "TypeError")
    ELSE LET H1 == AllocLog(R, Append(R.logs[R.objs[self].steps], [method |-> "all"]))
         IN QueryResult(H1, Elements(R.logs[R.ref]), LastLog(H1),
                        R.objs[self].arrayPath))

\* count recording the terminal all() in unbound mode.
countRecordsAll(H, self) ==
  IF ~IsDefined(H.objs[self].items) THEN _appendStep(H, self, [method |-> "all"])
  ELSE Eager(_executeFilter(H, self), LAMBDA R :
    IF ~R.ok THEN Throw(R, R.err)
    ELSE Value(R, Num(Len(R.logs[R.ref]))))

count(H, self) ==
  IF ~IsDefined(H.objs[self].items) THEN _appendStep(H, self, [method |-> "count"])
  ELSE Eager(_executeFilter(H, self), LAMBDA R :
    IF ~R.ok THEN Throw(R, R.err)
    ELSE IF LengthThrows(R.logs[R.ref]) THEN Throw(R, "TypeError")
    ELSE IF IsNotArray(R.logs[R.ref]) THEN Value(R, Undef)
    ELSE Value(R, Num(Len(R.logs[R.ref]))))

\* The mapper callbacks of the model, by name.
ApplyFn(fn, item) ==
  CASE fn = "toCost" -> Obj([cost |-> Prop(item, "price")])
    [] OTHER -> item

\* Array.prototype.map
MapSeq(fn, items) == [k \in 1..Len(items) |-> ApplyFn(fn, items[k])]

\* map over the raw items, the receiver's clauses and sort carried along.
mapKeepingClauses(H, self, fn) ==
  IF ~IsDefined(H.objs[self].items)
  THEN _deriveUnbound(H, self, [method |-> "map", fn |-> fn])
  ELSE LET this == H.objs[self]
           H1 == AllocLog(H, <<>>)
           H2 == AllocLog(H1, MapSeq(fn, H.logs[Get(this.items)]))
       IN ArrayQuery(H2, Some(LastLog(H2)), LastLog(H1),
                     this.clauses, Undefined, Undefined, this.sortPath,
                     this.sortDirection)

map(H, self, fn) ==
  IF ~IsDefined(H.objs[self].items)
  THEN _deriveUnbound(H, self, [method |-> "map", fn |-> fn])
  ELSE Eager(_executeFilter(H, self), LAMBDA R :
    IF ~R.ok THEN Throw(R, R.err)
    ELSE _bound(AllocLog(R, MapSeq(fn, R.logs[R.ref])), Len(R.logs) + 1, Undefined))

\* Array.prototype.slice(start, end): negative indices count from the end.
SliceIdx(k, len) ==
  IF k < 0 THEN (IF len + k < 0 THEN 0 ELSE len + k)
  ELSE IF k > len THEN len ELSE k

Slice(q, start, end) ==
  LET s == SliceIdx(start, Len(q))
      e == SliceIdx(end, Len(q))
  IN IF s >= e THEN <<>> ELSE SubSeq(q, s + 1, e)

take(H, self, n) ==
  IF ~IsDefined(H.objs[self].items)
  THEN _appendStep(H, self, [method |-> "take", n |-> n])
  ELSE Eager(_executeFilter(H, self), LAMBDA R :
    IF ~R.ok THEN Throw(R, R.err)
    ELSE _bound(AllocLog(R, Slice(R.logs[R.ref], 0, n)), Len(R.logs) + 1, Undefined))

drop(H, self, n) ==
  IF ~IsDefined(H.objs[self].items)
  THEN _appendStep(H, self, [method |-> "drop", n |-> n])
  ELSE Eager(_executeFilter(H, self), LAMBDA R :
    IF ~R.ok THEN Throw(R, R.err)
    ELSE _bound(AllocLog(R, Slice(R.logs[R.ref], n, Len(R.logs[R.ref]))),
                Len(R.logs) + 1, Undefined))

\* toRecipe handing out the source's own steps array when nothing is stripped.
toRecipeSharing(H, self, stripTerminal) ==
  LET this == H.objs[self]
      log == H.logs[this.steps]
      H1 == AllocLog(H, Slice(log, 0, 0 - 1))
  IN IF stripTerminal /\ Len(log) > 0
     THEN _fromSteps(H1, LastLog(H1), this.arrayPath)
     ELSE _fromSteps(H, this.steps, this.arrayPath)

\* ArrayQuery.toRecipe and QueryResult.toRecipe read the same two fields.
toRecipe(H, self, stripTerminal) ==
  LET this == H.objs[self]
      log == H.logs[this.steps]
      H1 == AllocLog(H, IF stripTerminal /\ Len(log) > 0
                        THEN Slice(log, 0, 0 - 1) ELSE log)
  IN _fromSteps(H1, LastLog(H1), this.arrayPath)

----------------------------------------------------------------------------
(* WhereBuilder: a mutable builder object that ends in parent._pushClause. *)

\* new WhereBuilder(parent, path, negate)
WhereBuilder(H, parent, path, negate) ==
  New(H, [kind |-> "builder", parent |-> parent, path |-> path,
          negate |-> negate,
          opts |-> [caseInsensitive |-> TRUE, trim |-> TRUE]])

where(H, self, path) == WhereBuilder(H, self, path, FALSE)
whereNot(H, self, path) == WhereBuilder(H, self, path, TRUE)

\* not(): sets the builder's negate flag and returns the builder.
not(H, b) ==
  [objs |-> [H.objs EXCEPT ![b].negate = TRUE], logs |-> H.logs, ret |-> b]

\* caseSensitive(): clears the builder's caseInsensitive option and returns
\* the builder.
caseSensitive(H, b) ==
  [objs |-> [H.objs EXCEPT ![b].opts.caseInsensitive = FALSE],
   logs |-> H.logs, ret |-> b]

\* noTrim(): clears the builder's trim option and returns the builder.
noTrim(H, b) ==
  [objs |-> [H.objs EXCEPT ![b].opts.trim = FALSE], logs |-> H.logs, ret |-> b]

\* The per-call options are written into the builder's own opts.
ApplyOptions(H, b, options) ==
  IF ~IsDefined(options) THEN H
  ELSE LET o == Get(options)
           ci == IF IsDefined(o.ignoreCase) THEN Get(o.ignoreCase)
                 ELSE H.objs[b].opts.caseInsensitive
           tr == IF IsDefined(o.trim) THEN Get(o.trim) ELSE H.objs[b].opts.trim
       IN [objs |-> [H.objs EXCEPT ![b].opts = [caseInsensitive |-> ci, trim |-> tr]],
           logs |-> H.logs]

\* equals whose negation compares with the literal even for strings matched
\* case-insensitively.
equalsNegatingLiterally(H, b, value, options) ==
  LET H1 == ApplyOptions(H, b, options)
      this == H1.objs[b]
  IN IF this.negate
     THEN _pushClause(H1, this.parent, Clause(this.path, "$ne", value))
     ELSE IF IsStr(value) /\ this.opts.caseInsensitive
          THEN _pushClause(H1, this.parent,
                 Clause(this.path, "$regex", makeRegex(value.s, "exact", this.opts)))
          ELSE _pushClause(H1, this.parent, Clause(this.path, "$eq", value))

equals(H, b, value, options) ==
  LET H1 == ApplyOptions(H, b, options)
      this == H1.objs[b]
  IN IF IsStr(value) /\ this.opts.caseInsensitive
     THEN _pushClause(H1, this.parent,
            Clause(this.path, IF this.negate THEN "$not" ELSE "$regex",
                   makeRegex(value.s, "exact", this.opts)))
     ELSE IF this.negate
          THEN _pushClause(H1, this.parent, Clause(this.path, "$ne", value))
          ELSE _pushClause(H1, this.parent, Clause(this.path, "$eq", value))

\* greaterThan that pays no attention to the negate flag.
greaterThanPlain(H, b, value) ==
  LET this == H.objs[b]
  IN _pushClause(H, this.parent, Clause(this.path, "$gt", value))

greaterThan(H, b, value) ==
  LET this == H.objs[b]
  IN _pushClause(H, this.parent,
       Clause(this.path, IF this.negate THEN "$lte" ELSE "$gt", value))

greaterThanOrEqual(H, b, value) ==
  LET this == H.objs[b]
  IN _pushClause(H, this.parent,
       Clause(this.path, IF this.negate THEN "$lt" ELSE "$gte", value))

lessThan(H, b, value) ==
  LET this == H.objs[b]
  IN _pushClause(H, this.parent,
       Clause(this.path, IF this.negate THEN "$gte" ELSE "$lt", value))

lessThanOrEqual(H, b, value) ==
  LET this == H.objs[b]
  IN _pushClause(H, this.parent,
       Clause(this.path, IF this.negate THEN "$gt" ELSE "$lte", value))

----------------------------------------------------------------------------
(* Cardinality terminals and provenance (paths and indices).               *)

\* Array.prototype.indexOf: the 0-based index of the first element strictly
\* equal to x, or -1.
IndexOf(items, x) ==
  LET hits == {k \in 1..Len(items) : StrictEquals(items[k], x)}
  IN IF hits = {} THEN 0 - 1
     ELSE (CHOOSE k \in hits : \A j \in hits : k <= j) - 1

\* The cardinality message without the number of matches.
ExpectedOneNoCount(found) == "Expected exactly 1 match."

\* `Expected exactly 1 match, found ${results.length}.`
ExpectedOne(found) == "Expected exactly 1 match, found " \o ToString(found) \o "."

\* `${op}() is only available on bound queries.`
BoundOnly(op) == op \o "() is only available on bound queries."

one(H, self, message) ==
  IF ~IsDefined(H.objs[self].items)
  THEN _appendStep(H, self, [method |-> "one", message |-> message])
  ELSE Eager(_executeFilter(H, self), LAMBDA R :
    IF ~R.ok THEN Throw(R, R.err)
    ELSE IF Len(R.logs[R.ref]) # 1
    THEN Throw(R, IF IsDefined(message) THEN Get(message)
                  ELSE ExpectedOne(Len(R.logs[R.ref])))
    ELSE Value(R, R.logs[R.ref][1]))

\* A path of the model written out as the string it stands for.
SegText(seg) ==
  IF IsDefined(seg.idx) THEN seg.key \o "[" \o ToString(Get(seg.idx)) \o "]"
  ELSE seg.key

RECURSIVE PathText(_)
PathText(path) ==
  IF path = <<>> THEN ""
  ELSE IF Len(path) = 1 THEN SegText(path[1])
  ELSE SegText(path[1]) \o "." \o PathText(Tail(path))

\* `[${index}]`
Bracket(index) == "[" \o ToString(index) \o "]"

\* A path-valued metadata field is truthy: present and not "".
Truthy(opt) == IsDefined(opt) /\ Get(opt) # <<>>

\* _buildPathForItem taking the position among the results for the position
\* in the source.
_buildPathByPosition(H, self, item, filteredIndex) ==
  LET this == H.objs[self]
      groupsRootPath == IF IsDefined(this.metadata)
                        THEN Get(this.metadata).groupsRootPath ELSE Undefined
      arrayPath == IF IsDefined(this.metadata)
                   THEN Get(this.metadata).arrayPath ELSE Undefined
      itemMetadata == IF IsDefined(this.metadata)
                      THEN Get(this.metadata).itemMetadata ELSE Undefined
  IN IF ~Truthy(groupsRootPath) /\ Truthy(arrayPath) /\ ~IsDefined(itemMetadata)
     THEN PathText(Get(arrayPath)) \o Bracket(filteredIndex)
     ELSE IF Truthy(groupsRootPath) /\ Truthy(arrayPath) /\ IsDefined(itemMetadata)
     THEN (IF filteredIndex >= Len(Get(itemMetadata)) THEN Bracket(filteredIndex)
           ELSE LET itemMeta == Get(itemMetadata)[filteredIndex + 1]
                IN PathText(Get(groupsRootPath)) \o "." \o itemMeta.groupKey
                     \o "." \o PathText(Get(arrayPath))
                     \o Bracket(itemMeta.itemIndex))
     ELSE Bracket(filteredIndex)

_buildPathForItem(H, self, item, filteredIndex) ==
  LET this == H.objs[self]
      groupsRootPath == IF IsDefined(this.metadata)
                        THEN Get(this.metadata).groupsRootPath ELSE Undefined
      arrayPath == IF IsDefined(this.metadata)
                   THEN Get(this.metadata).arrayPath ELSE Undefined
      itemMetadata == IF IsDefined(this.metadata)
                      THEN Get(this.metadata).itemMetadata ELSE Undefined
      unfilteredIndex == IndexOf(H.logs[Get(this.items)], item)
  IN IF ~Truthy(groupsRootPath) /\ Truthy(arrayPath) /\ ~IsDefined(itemMetadata)
     THEN (IF unfilteredIndex # 0 - 1
           THEN PathText(Get(arrayPath)) \o Bracket(unfilteredIndex)
           ELSE PathText(Get(arrayPath)) \o Bracket(filteredIndex))
     ELSE IF Truthy(groupsRootPath) /\ Truthy(arrayPath) /\ IsDefined(itemMetadata)
     THEN (IF unfilteredIndex = 0 - 1 THEN Bracket(filteredIndex)
           ELSE IF unfilteredIndex >= Len(Get(itemMetadata))
           THEN Bracket(filteredIndex)
           ELSE LET itemMeta == Get(itemMetadata)[unfilteredIndex + 1]
                IN PathText(Get(groupsRootPath)) \o "." \o itemMeta.groupKey
                     \o "." \o PathText(Get(arrayPath))
                     \o Bracket(itemMeta.itemIndex))
     ELSE Bracket(filteredIndex)

\* new PathQuery(paths)
PathQuery(H, paths) == New(H, [kind |-> "PathQuery", paths |-> paths])
\* new IndexQuery(indices)
IndexQuery(H, indices) == New(H, [kind |-> "IndexQuery", indices |-> indices])
\* new ValueArrayQuery(values)
ValueArrayQuery(H, values) ==
  New(H, [kind |-> "ValueArrayQuery", values |-> values])
\* new AggregateQuery(items)
AggregateQuery(H, items) == New(H, [kind |-> "AggregateQuery", items |-> items])

path(H, self) ==
  IF ~IsDefined(H.objs[self].items) THEN Throw(H, BoundOnly("path"))
  ELSE Eager(_executeFilter(H, self), LAMBDA R :
    IF ~R.ok THEN Throw(R, R.err)
    ELSE PathQuery(R, [k \in 1..Len(R.logs[R.ref]) |->
                         _buildPathForItem(R, self, R.logs[R.ref][k], k - 1)]))

\* index() reporting the position among the results when the lookup in the
\* original items fails.
indexByPosition(H, self) ==
  IF ~IsDefined(H.objs[self].items) THEN Throw(H, BoundOnly("index"))
  ELSE Eager(_executeFilter(H, self), LAMBDA R :
    IF ~R.ok THEN Throw(R, R.err)
    ELSE IndexQuery(R, [k \in 1..Len(R.logs[R.ref]) |->
           IF IndexOf(R.logs[Get(R.objs[self].items)], R.logs[R.ref][k]) = 0 - 1
           THEN k - 1
           ELSE IndexOf(R.logs[Get(R.objs[self].items)], R.logs[R.ref][k])]))

index(H, self) ==
  IF ~IsDefined(H.objs[self].items) THEN Throw(H, BoundOnly("index"))
  ELSE Eager(_executeFilter(H, self), LAMBDA R :
    IF ~R.ok THEN Throw(R, R.err)
    ELSE IndexQuery(R, [k \in 1..Len(R.logs[R.ref]) |->
                          IndexOf(R.logs[Get(R.objs[self].items)], R.logs[R.ref][k])]))

allWithIndex(H, self) ==
  IF ~IsDefined(H.objs[self].items) THEN Throw(H, BoundOnly("allWithIndex"))
  ELSE Eager(_executeFilter(H, self), LAMBDA R :
    IF ~R.ok THEN Throw(R, R.err)
    ELSE Value(R, Arr([k \in 1..Len(R.logs[R.ref]) |->
           Arr(<<Num(IndexOf(R.logs[Get(R.objs[self].items)], R.logs[R.ref][k])),
                 R.logs[R.ref][k]>>)])))

\* Math.random() is `random`/4; the path is built by the same three cases
\* as in _buildPathForItem, with randomIndex as the fallback index.
randomWithPath(H, self, random) ==
  IF ~IsDefined(H.objs[self].items) THEN Throw(H, BoundOnly("randomWithPath"))
  ELSE Eager(_executeFilter(H, self), LAMBDA R :
    IF ~R.ok THEN Throw(R, R.err)
    ELSE IF Len(R.logs[R.ref]) = 0
    THEN Throw(R, "No matches found for randomWithPath().")
    ELSE LET randomIndex == (random * Len(R.logs[R.ref])) \div 4
             item == R.logs[R.ref][randomIndex + 1]
         IN Value(R, Arr(<<item,
                           Str(_buildPathForItem(R, self, item, randomIndex))>>)))

\* The first failed lookup of a list of outcomes, or all the values.
AllOk(looked) ==
  LET bad == {k \in 1..Len(looked) : ~looked[k].ok} IN
  IF bad # {} THEN Err(looked[CHOOSE k \in bad : \A j \in bad : k <= j].err)
  ELSE Ok([k \in 1..Len(looked) |-> looked[k].v])

\* pluck() recorded as a step on an unbound pipeline, as the terminals
\* that exist in both modes are.
pluckRecording(H, self, p) ==
  IF ~IsDefined(H.objs[self].items)
  THEN _appendStep(H, self, [method |-> "pluck", path |-> p])
  ELSE Eager(_executeFilter(H, self), LAMBDA R :
    IF ~R.ok THEN Throw(R, R.err)
    ELSE Eager(AllOk([k \in 1..Len(R.logs[R.ref]) |-> getByPath(R.logs[R.ref][k], p)]),
               LAMBDA values : IF ~values.ok THEN Throw(R, values.err)
                               ELSE ValueArrayQuery(R, values.v)))

pluck(H, self, p) ==
  IF ~IsDefined(H.objs[self].items) THEN Throw(H, BoundOnly("pluck"))
  ELSE Eager(_executeFilter(H, self), LAMBDA R :
    IF ~R.ok THEN Throw(R, R.err)
    ELSE Eager(AllOk([k \in 1..Len(R.logs[R.ref]) |-> getByPath(R.logs[R.ref][k], p)]),
               LAMBDA values : IF ~values.ok THEN Throw(R, values.err)
                               ELSE ValueArrayQuery(R, values.v)))

\* pick(path): one object per item, keyed by the path string.
pick(H, self, p) ==
  IF ~IsDefined(H.objs[self].items) THEN Throw(H, BoundOnly("pick"))
  ELSE Eager(_executeFilter(H, self), LAMBDA R :
    IF ~R.ok THEN Throw(R, R.err)
    ELSE Eager(AllOk([k \in 1..Len(R.logs[R.ref]) |->
                        getByPathStrict(R.logs[R.ref][k], p)]),
               LAMBDA values :
      IF ~values.ok THEN Throw(R, values.err)
      ELSE Value(R, Arr([k \in 1..Len(values.v) |->
                           Obj(PathText(p) :> values.v[k])]))))

aggregate(H, self) ==
  IF ~IsDefined(H.objs[self].items) THEN Throw(H, BoundOnly("aggregate"))
  ELSE Eager(_executeFilter(H, self), LAMBDA R :
    IF ~R.ok THEN Throw(R, R.err)
    ELSE AggregateQuery(R, R.logs[R.ref]))

\* The predicate callbacks of the model, by name.
TestFn(fn, item) ==
  CASE fn = "isPremium" -> Prop(item, "type") = Str("Premium")
    [] OTHER -> FALSE

\* Array.prototype.filter with a callback, or with its negation.
SelectFn(items, fn, keep) ==
  LET sel == {k \in 1..Len(items) : TestFn(fn, items[k]) = keep}
      F[k \in 0..Len(items)] ==
        IF k = 0 THEN <<>>
        ELSE IF k \in sel THEN Append(F[k - 1], items[k]) ELSE F[k - 1]
  IN F[Len(items)]

\* The number of leading items that satisfy the callback.
PrefixLength(items, fn) ==
  LET fails == {k \in 1..Len(items) : ~TestFn(fn, items[k])}
  IN IF fails = {} THEN Len(items)
     ELSE (CHOOSE k \in fails : \A j \in fails : k <= j) - 1

\* Returns the longest prefix satisfying predicate.
takeWhile(H, self, fn) ==
  IF ~IsDefined(H.objs[self].items)
  THEN _appendStep(H, self, [method |-> "takeWhile", fn |-> fn])
  ELSE Eager(_executeFilter(H, self), LAMBDA R :
    IF ~R.ok THEN Throw(R, R.err)
    ELSE _bound(AllocLog(R, SubSeq(R.logs[R.ref], 1, PrefixLength(R.logs[R.ref], fn))),
                Len(R.logs) + 1, Undefined))

\* Drops prefix satisfying predicate, returns remainder.
dropWhile(H, self, fn) ==
  IF ~IsDefined(H.objs[self].items)
  THEN _appendStep(H, self, [method |-> "dropWhile", fn |-> fn])
  ELSE Eager(_executeFilter(H, self), LAMBDA R :
    IF ~R.ok THEN Throw(R, R.err)
    ELSE _bound(AllocLog(R, SubSeq(R.logs[R.ref], PrefixLength(R.logs[R.ref], fn) + 1,
                                   Len(R.logs[R.ref]))),
                Len(R.logs) + 1, Undefined))

\* Splits into [matching, nonMatching]; the two instances of the returned
\* pair are kept as the arrays they are bound over.
partition(H, self, fn) ==
  IF ~IsDefined(H.objs[self].items) THEN Throw(H, BoundOnly("partition"))
  ELSE Eager(_executeFilter(H, self), LAMBDA R :
    IF ~R.ok THEN Throw(R, R.err)
    ELSE New(R, [kind |-> "partition",
                 yes |-> SelectFn(R.logs[R.ref], fn, TRUE),
                 no |-> SelectFn(R.logs[R.ref], fn, FALSE)]))

----------------------------------------------------------------------------
(* Filter expressions.  An expression string is kept as the list of its    *)
(* lexemes: identifiers, operators, literals, the quote "'", and the       *)
(* logical operators " and " and " or " with their surrounding blanks.     *)

\* String.prototype.trim: leading and trailing blanks removed.
RECURSIVE TrimLeft(_)
TrimLeft(lex) ==
  IF lex # <<>> /\ Head(lex) = " " THEN TrimLeft(Tail(lex)) ELSE lex

RECURSIVE TrimRight(_)
TrimRight(lex) ==
  IF lex # <<>> /\ lex[Len(lex)] = " " THEN TrimRight(SubSeq(lex, 1, Len(lex) - 1))
  ELSE lex

TrimLex(lex) == TrimRight(TrimLeft(lex))

\* The loop of splitLogicalOperators from lexeme i on: `current` is the
\* expression being collected, `acc` the expressions and operators so far.
RECURSIVE SplitFrom(_, _, _, _, _)
SplitFrom(expression, i, current, inQuotes, acc) ==
  IF i > Len(expression)
  THEN (IF TrimLex(current) # <<>>
        THEN [acc EXCEPT !.expressions = Append(@, TrimLex(current))]
        ELSE acc)
  ELSE IF expression[i] = "'"
  THEN SplitFrom(expression, i + 1, Append(current, expression[i]), ~inQuotes, acc)
  ELSE IF inQuotes
  THEN SplitFrom(expression, i + 1, Append(current, expression[i]), inQuotes, acc)
  ELSE IF expression[i] = " and "
  THEN SplitFrom(expression, i + 1, <<>>, inQuotes,
                 [expressions |-> Append(acc.expressions, TrimLex(current)),
                  operators |-> Append(acc.operators, "and")])
  ELSE IF expression[i] = " or "
  THEN SplitFrom(expression, i + 1, <<>>, inQuotes,
                 [expressions |-> Append(acc.expressions, TrimLex(current)),
                  operators |-> Append(acc.operators, "or")])
  ELSE SplitFrom(expression, i + 1, Append(current, expression[i]), inQuotes, acc)

splitLogicalOperators(expression) ==
  SplitFrom(expression, 1, <<>>, FALSE, [expressions |-> <<>>, operators |-> <<>>])

\* The lexemes that match [a-zA-Z_][a-zA-Z0-9_.]* and are used as fields.
Identifiers == {"type", "price", "id"}

\* ===?|!==?|>=|<=|>|<|not|contains|startsWith|endsWith
FilterOperators ==
  {"==", "===", "!=", "!==", ">=", "<=", ">", "<", "not", "contains",
   "startsWith", "endsWith"}

\* Number(trimmedVal) for the numerals of the model.
Numerals == ("100" :> 100) @@ ("2" :> 2)

\* The lexemes written one after the other.
RECURSIVE Join(_)
Join(lex) == IF lex = <<>> THEN "" ELSE Head(lex) \o Join(Tail(lex))

\* The value a literal stands for.
ParseValue(valueStr) ==
  LET trimmedVal == TrimLex(valueStr) IN
  IF trimmedVal # <<>> /\ Head(trimmedVal) = "'" /\ trimmedVal[Len(trimmedVal)] = "'"
  THEN Str(Join(SubSeq(trimmedVal, 2, Len(trimmedVal) - 1)))
  ELSE IF Len(trimmedVal) = 1 /\ trimmedVal[1] \in DOMAIN Numerals
  THEN Num(Numerals[trimmedVal[1]])
  ELSE IF trimmedVal \in {<<"true">>, <<"false">>}
  THEN Bool(trimmedVal = <<"true">>)
  ELSE IF trimmedVal = <<"null">> THEN Null
  ELSE IF trimmedVal = <<"undefined">> THEN Undef
  ELSE Str(Join(trimmedVal))

\* String.prototype.toLowerCase on the operators.
LowerOp(operator) ==
  CASE operator = "startsWith" -> "startswith"
    [] operator = "endsWith" -> "endswith"
    [] OTHER -> operator

\* The message of the error thrown for an expression that does not match.
InvalidExpression(expression) ==
  "Invalid filter expression: \"" \o Join(expression)
    \o "\". Expected format: \"field operator value\" (e.g., \"status == 'Active'\")"

\* The message of the error thrown when nothing is left after splitting.
NoValidExpressions(expression) ==
  "No valid expressions found in filter: \"" \o Join(expression) \o "\""

\* parseFilterExpression with an error that does not name the expression.
parseFilterExpressionAnonymous(expression) ==
  LET e == TrimLeft(expression) IN
  IF Len(e) >= 3 /\ e[1] \in Identifiers /\ e[2] \in FilterOperators
  THEN Ok([field |-> e[1], operator |-> LowerOp(e[2]),
           value |-> ParseValue(SubSeq(e, 3, Len(e)))])
  ELSE Err("Invalid filter expression")

\* field operator value
parseFilterExpression(expression) ==
  LET e == TrimLeft(expression) IN
  IF Len(e) >= 3 /\ e[1] \in Identifiers /\ e[2] \in FilterOperators
  THEN Ok([field |-> e[1], operator |-> LowerOp(e[2]),
           value |-> ParseValue(SubSeq(e, 3, Len(e)))])
  ELSE Err(InvalidExpression(expression))

\* String(value) of a parsed value.
StringOf(value) ==
  IF IsStr(value) THEN value.s
  ELSE IF IsNum(value) THEN ToString(value.n)
  ELSE IF value = Null THEN "null"
  ELSE IF value = Undef THEN "undefined"
  ELSE IF value.b THEN "true" ELSE "false"

\* The match object of one comparison (called without options).
expressionToSiftClause(field, operator, value) ==
  CASE operator \in {"==", "==="} -> Ok(Clause(P(field), "$eq", value))
    [] operator \in {"!=", "!==", "not"} -> Ok(Clause(P(field), "$ne", value))
    [] operator = ">" -> Ok(Clause(P(field), "$gt", value))
    [] operator = ">=" -> Ok(Clause(P(field), "$gte", value))
    [] operator = "<" -> Ok(Clause(P(field), "$lt", value))
    [] operator = "<=" -> Ok(Clause(P(field), "$lte", value))
    [] operator \in {"contains", "startswith", "endswith"} ->
         Ok(Clause(P(field), "$regex",
                   makeRegex(StringOf(value), operator,
                             [trim |-> TRUE, caseInsensitive |-> TRUE])))
    [] OTHER -> Err("Unknown operator")

\* parseFilterExpression followed by expressionToSiftClause.
CompileOne(expression) ==
  Eager(parseFilterExpression(expression), LAMBDA parsed :
    IF ~parsed.ok THEN parsed
    ELSE expressionToSiftClause(parsed.v.field, parsed.v.operator, parsed.v.value))

\* clauses[i], which is undefined beyond the end of the array.
ClauseAt(clauses, i) == IF i <= Len(clauses) THEN clauses[i] ELSE Undef

\* The loop over the operators, from operator i on.
RECURSIVE FoldFrom(_, _, _, _)
FoldFrom(result, clauses, operators, i) ==
  IF i > Len(operators) THEN result
  ELSE IF operators[i] = "and"
  THEN FoldFrom([and |-> <<result, ClauseAt(clauses, i + 1)>>], clauses, operators, i + 1)
  ELSE FoldFrom([or |-> <<result, ClauseAt(clauses, i + 1)>>], clauses, operators, i + 1)

\* The operators applied from the right: e1 op1 (e2 op2 (e3 ...)).
RECURSIVE FoldRightFrom(_, _, _)
FoldRightFrom(clauses, operators, i) ==
  IF i > Len(operators) THEN ClauseAt(clauses, i)
  ELSE IF operators[i] = "and"
  THEN [and |-> <<ClauseAt(clauses, i), FoldRightFrom(clauses, operators, i + 1)>>]
  ELSE [or |-> <<ClauseAt(clauses, i), FoldRightFrom(clauses, operators, i + 1)>>]

\* parseCompositeFilterExpression grouping from the right.
parseCompositeRightToLeft(expression) ==
  LET split == splitLogicalOperators(expression)
      compiled == [k \in 1..Len(split.expressions) |-> CompileOne(split.expressions[k])]
  IN IF Len(split.expressions) = 0 THEN Err(NoValidExpressions(expression))
     ELSE IF Len(split.expressions) = 1 THEN compiled[1]
     ELSE Eager(AllOk(compiled), LAMBDA clauses :
            IF ~clauses.ok THEN clauses
            ELSE Ok(FoldRightFrom(clauses.v, split.operators, 1)))

parseCompositeFilterExpression(expression) ==
  LET split == splitLogicalOperators(expression)
      compiled == [k \in 1..Len(split.expressions) |-> CompileOne(split.expressions[k])]
  IN IF Len(split.expressions) = 0 THEN Err(NoValidExpressions(expression))
     ELSE IF Len(split.expressions) = 1 THEN compiled[1]
     ELSE Eager(AllOk(compiled), LAMBDA clauses :
            IF ~clauses.ok THEN clauses
            ELSE Ok(FoldFrom(clauses.v[1], clauses.v, split.operators, 1)))

\* Applies a filter using a DSL expression.
filter(H, self, expression) ==
  Eager(parseCompositeFilterExpression(expression), LAMBDA clause :
    IF ~clause.ok THEN Throw(H, clause.err)
    ELSE _pushClause(H, self, clause.v))

----------------------------------------------------------------------------
(* Method dispatch, replay and run.                                        *)

\* "x.method is not a function"
TypeError(H) == Throw(H, "TypeError")

\* current[step.method](...step.args) for a plain (non-where) step.  On an
\* ArrayQuery this is the method; on the array a terminal all() returned only
\* Array.prototype's own map and sort exist; on anything else nothing does.
CallMethod(H, current, step) ==
  LET kind == H.objs[current].kind IN
  IF kind = "query" THEN
    CASE step.method = "_pushClause" -> _pushClause(H, current, step.clause)
      [] step.method = "sort" -> sort(H, current, step.path, step.direction)
      [] step.method = "take" -> take(H, current, step.n)
      [] step.method = "drop" -> drop(H, current, step.n)
      [] step.method = "map" -> map(H, current, step.fn)
      [] step.method = "all" -> all(H, current)
      [] step.method = "count" -> count(H, current)
      [] step.method = "one" -> one(H, current, step.message)
      [] step.method = "path" -> path(H, current)
      [] step.method = "index" -> index(H, current)
      [] step.method = "allWithIndex" -> allWithIndex(H, current)
      [] step.method = "randomWithPath" -> randomWithPath(H, current, step.random)
      [] step.method = "pluck" -> pluck(H, current, step.path)
      [] step.method = "pick" -> pick(H, current, step.path)
      [] step.method = "aggregate" -> aggregate(H, current)
      [] step.method = "partition" -> partition(H, current, step.fn)
      [] step.method = "takeWhile" -> takeWhile(H, current, step.fn)
      [] step.method = "dropWhile" -> dropWhile(H, current, step.fn)
      [] OTHER -> TypeError(H)
  ELSE IF kind = "result" /\ step.method = "map"
       THEN Value(H, Arr(MapSeq(step.fn, H.objs[current].elems)))
  ELSE IF kind = "value" /\ IsArr(H.objs[current].val) /\ step.method = "map"
       THEN Value(H, Arr(MapSeq(step.fn, H.objs[current].val.a)))
  ELSE TypeError(H)

\* type guard for compound where-chain steps: "modifiers" in step
isWhereStep(step) == "modifiers" \in DOMAIN step

\* builder = builder[mod.name](...mod.args), for each modifier in order
RECURSIVE ApplyModifiers(_, _, _, _)
ApplyModifiers(H, b, modifiers, i) ==
  IF i > Len(modifiers) THEN [objs |-> H.objs, logs |-> H.logs, ret |-> b]
  ELSE IF modifiers[i].name = "not"
       THEN ApplyModifiers(not(H, b), b, modifiers, i + 1)
       ELSE TypeError(H)

\* One iteration of the loop of _replay.
ReplayStep(H, current, step) ==
  IF isWhereStep(step)
  THEN IF ~IsQuery(H, current) THEN TypeError(H)
       ELSE LET B0 == IF step.method = "whereNot"
                      THEN whereNot(H, current, step.path)
                      ELSE where(H, current, step.path)
                B1 == ApplyModifiers(B0, B0.ret, step.modifiers, 1)
            IN IF B1.objs[B1.ret].kind # "builder" THEN B1
               ELSE CASE step.terminal.method = "equals" ->
                           equals(B1, B1.ret, step.terminal.value, Undefined)
                      [] step.terminal.method = "greaterThan" ->
                           greaterThan(B1, B1.ret, step.terminal.value)
                      [] OTHER -> TypeError(B1)
  ELSE CallMethod(H, current, step)

\* A throw inside the loop ends the replay: the error is what run yields.
RECURSIVE ReplayFrom(_, _, _)
ReplayFrom(R, steps, i) ==
  IF i > Len(steps) \/ R.objs[R.ret].kind = "error" THEN R
  ELSE Eager(ReplayStep(R, R.ret, steps[i]),
             LAMBDA R1 : ReplayFrom(R1, steps, i + 1))

\* Replays recorded steps onto a fresh bound ArrayQuery.
_replay(H, items, steps, metadata) ==
  Eager(_bound(H, items, metadata), LAMBDA R : ReplayFrom(R, steps, 1))

\* The array an unbound pipeline runs over: the input itself, or what lies
\* at the embedded path of the input.
RunItems(H, self, input) ==
  LET this == H.objs[self] IN
  IF ~IsDefined(this.arrayPath) THEN ArrayIn(H, input.v)
  ELSE Eager(getByPathStrict(input.v, Get(this.arrayPath)), LAMBDA items :
    IF ~items.ok THEN ErrIn(H, items.err)
    ELSE IF ~IsArray(items.v) THEN ErrIn(H, "Expected array at path")
    ELSE ArrayIn(H, items.v))

\* run that uses up the steps array it replays (steps.shift() in the loop).
runConsumingSteps(H, self, input) ==
  LET this == H.objs[self]
      replayed == IF ~IsDefined(this.items) THEN this.steps
                  ELSE H.objs[input.ref].steps
  IN
  Eager(IF ~IsDefined(this.items) THEN RunItems(H, self, input)
        ELSE _executeFilter(H, self),
        LAMBDA I :
    IF ~I.ok THEN Throw(I, I.err)
    ELSE Eager(_replay(I, I.ref, I.logs[replayed], Undefined),
               LAMBDA R : [R EXCEPT !.logs[replayed] = <<>>]))

\* run on a bound instance replaying over its original items.
runOverItems(H, self, input) ==
  LET this == H.objs[self] IN
  Eager(IF ~IsDefined(this.items) THEN RunItems(H, self, input)
        ELSE OkIn(H, Get(this.items)),
        LAMBDA I :
    IF ~I.ok THEN Throw(I, I.err)
    ELSE _replay(I, I.ref,
                 I.logs[IF ~IsDefined(this.items) THEN this.steps
                        ELSE I.objs[input.ref].steps],
                 Undefined))

\* run(input): on unbound, input is the data ([v |-> value]) and the steps
\* replayed are the receiver's own; on bound, input is a recipe ([ref |->
\* object]) whose steps are replayed over the receiver's materialized items.
run(H, self, input) ==
  LET this == H.objs[self] IN
  Eager(IF ~IsDefined(this.items) THEN RunItems(H, self, input)
        ELSE _executeFilter(H, self),
        LAMBDA I :
    IF ~I.ok THEN Throw(I, I.err)
    ELSE _replay(I, I.ref,
                 I.logs[IF ~IsDefined(this.items) THEN this.steps
                        ELSE I.objs[input.ref].steps],
                 Undefined))

\* One call made by the caller on the object `self`.  A where-chain is
\* where(path)/whereNot(path) followed at once by its comparison.
Invoke(H, self, call) ==
  CASE call.method = "whereEquals" ->
         IF ~IsQuery(H, self) THEN TypeError(H)
         ELSE LET B == IF call.negate THEN whereNot(H, self, call.path)
                       ELSE where(H, self, call.path)
              IN equals(B, B.ret, call.value,
                        IF "options" \in DOMAIN call THEN call.options ELSE Undefined)
    [] call.method = "whereCompare" ->
         IF ~IsQuery(H, self) THEN TypeError(H)
         ELSE LET B == IF call.negate THEN whereNot(H, self, call.path)
                       ELSE where(H, self, call.path)
              IN (CASE call.comparison = "greaterThan" ->
                         greaterThan(B, B.ret, call.value)
                    [] call.comparison = "greaterThanOrEqual" ->
                         greaterThanOrEqual(B, B.ret, call.value)
                    [] call.comparison = "lessThan" ->
                         lessThan(B, B.ret, call.value)
                    [] call.comparison = "lessThanOrEqual" ->
                         lessThanOrEqual(B, B.ret, call.value))
    [] call.method = "where" ->
         IF IsQuery(H, self) THEN where(H, self, call.path) ELSE TypeError(H)
    [] call.method = "not" ->
         IF IsBuilder(H, self) THEN not(H, self) ELSE TypeError(H)
    [] call.method = "caseSensitive" ->
         IF IsBuilder(H, self) THEN caseSensitive(H, self) ELSE TypeError(H)
    [] call.method = "noTrim" ->
         IF IsBuilder(H, self) THEN noTrim(H, self) ELSE TypeError(H)
    [] call.method = "equals" ->
         IF IsBuilder(H, self) THEN equals(H, self, call.value, call.options)
         ELSE TypeError(H)
    [] call.method = "whereGreaterThan" ->
         IF ~IsQuery(H, self) THEN TypeError(H)
         ELSE LET B == IF call.negate THEN whereNot(H, self, call.path)
                       ELSE where(H, self, call.path)
              IN greaterThan(B, B.ret, call.value)
    [] call.method = "toRecipe" ->
         IF H.objs[self].kind \in {"query", "result"}
         THEN toRecipe(H, self, call.stripTerminal) ELSE TypeError(H)
    [] call.method = "run" ->
         IF IsQuery(H, self) THEN run(H, self, call.input) ELSE TypeError(H)
    [] call.method = "filter" ->
         IF IsQuery(H, self) THEN filter(H, self, call.expression)
         ELSE TypeError(H)
    [] OTHER -> CallMethod(H, self, call)

----------------------------------------------------------------------------
(* The caller: datasets, and one action per call.                          *)

Item(id, type, price) ==
  Obj([id |-> Num(id), type |-> Str(type), price |-> Num(price)])

DatasetA == <<Item(1, "Premium", 300), Item(2, "Basic", 50), Item(3, "Premium", 500)>>
DatasetB == <<Item(10, "Basic", 25), Item(11, "Premium", 800)>>

\* The caller's two dataset arrays live in the heap from the start, under
\* these references.
DataRefA == 1
DataRefB == 2
Datasets == {DataRefA, DataRefB}
\* A root object { items: [...] }, as handed to query(root); `data` is the
\* reference of the array.
Root(data) == Obj([items |-> ArrRef(data)])

EmptyHeap == [objs |-> <<>>, logs |-> <<>>]
CallerHeap == [objs |-> <<>>, logs |-> <<DatasetA, DatasetB>>]

\* An object with its step log and its items read through the references.
Deref(H, id) ==
  LET o == H.objs[id]
  IN IF o.kind = "query"
     THEN [o EXCEPT !.steps = H.logs[o.steps],
                    !.items = IF IsDefined(o.items) THEN Some(H.logs[Get(o.items)])
                              ELSE Undefined]
     ELSE IF o.kind = "result" THEN [o EXCEPT !.steps = H.logs[o.steps]]
     ELSE o

\* What the caller keeps of an operation's outcome R: the objects held
\* before (as the operation left them) and the returned object with the
\* arrays it references; temporaries (builders, the intermediate instances
\* and arrays of a replay) are unreachable.
Commit(R, self, call, pre) ==
  LET n == Len(objs)
      m == Len(logs)
      isNew == R.ret > n
      o == R.objs[R.ret]
      fresh == isNew /\ o.kind \in {"query", "result"} /\ o.steps > m
      freshItems == isNew /\ o.kind = "query" /\ IsDefined(o.items)
                    /\ Get(o.items) > m
      at == IF fresh THEN m + 2 ELSE m + 1
      kept == [o EXCEPT !.steps = IF fresh THEN m + 1 ELSE @,
                        !.items = IF freshItems THEN Some(at) ELSE @]
  IN /\ objs' = IF isNew
                THEN Append(SubSeq(R.objs, 1, n),
                            IF fresh \/ freshItems THEN kept ELSE o)
                ELSE SubSeq(R.objs, 1, n)
     /\ logs' = SubSeq(R.logs, 1, m)
                  \o (IF fresh THEN <<R.logs[o.steps]>> ELSE <<>>)
                  \o (IF freshItems THEN <<R.logs[Get(o.items)]>> ELSE <<>>)
     /\ hist' = Append(hist, [self |-> self, call |-> call,
                              ret |-> IF isNew THEN n + 1 ELSE R.ret,
                              pre |-> pre, post |-> Deref(R, R.ret)])

Do(self, call) ==
  /\ Len(objs) < MaxObjs
  /\ \E R \in {Invoke(Heap, self, call)} :
       Commit(R, self, call, Deref(Heap, self))

Queries == {id \in 1..Len(objs) : objs[id].kind = "query"}
Unbounds == {id \in Queries : ~IsDefined(objs[id].items)}
Bounds == {id \in Queries : IsDefined(objs[id].items)}

WhereEquals(self) ==
  Do(self, [method |-> "whereEquals", path |-> P("type"), negate |-> FALSE,
            value |-> Str("Premium")])

WhereGreaterThan(self) ==
  Do(self, [method |-> "whereGreaterThan", path |-> P("price"), negate |-> FALSE,
            value |-> Num(100)])

Sort(self) ==
  Do(self, [method |-> "sort", path |-> P("price"), direction |-> "desc"])

Take(self) == Do(self, [method |-> "take", n |-> 1])

Drop(self) == Do(self, [method |-> "drop", n |-> 1])

Map(self) == Do(self, [method |-> "map", fn |-> "toCost"])

All(self) == Do(self, [method |-> "all"])

Count(self) == Do(self, [method |-> "count"])

ToRecipe(self, stripTerminal) ==
  Do(self, [method |-> "toRecipe", stripTerminal |-> stripTerminal])

\* pipeline.run(data): an array for a pure pipeline, a root object for a
\* recipe with an embedded path.
RunData(self, data) ==
  Do(self, [method |-> "run",
            input |-> [v |-> IF IsDefined(objs[self].arrayPath) THEN Root(data)
                             ELSE ArrRef(data)]])

\* bound.run(recipe)
RunRecipe(self, recipe) ==
  Do(self, [method |-> "run", input |-> [ref |-> recipe]])

InitWith(R, call) ==
  /\ objs = R.objs
  /\ logs = R.logs
  /\ hist = <<[self |-> 0, call |-> call, ret |-> R.ret,
               pre |-> Deref(R, R.ret), post |-> Deref(R, R.ret)]>>

Init ==
  \/ InitWith(arrayPipeline(CallerHeap), [method |-> "arrayPipeline"])
  \/ InitWith(array(CallerHeap, Root(DataRefA), P("items")),
              [method |-> "array", root |-> Root(DataRefA), path |-> P("items")])

Next ==
  \/ \E self \in Queries : WhereEquals(self)
  \/ \E self \in Queries : WhereGreaterThan(self)
  \/ \E self \in Queries : Sort(self)
  \/ \E self \in Queries : Take(self)
  \/ \E self \in Queries : Drop(self)
  \/ \E self \in Queries : Map(self)
  \/ \E self \in Queries : All(self)
  \/ \E self \in Queries : Count(self)
  \/ \E self \in 1..Len(objs), stripTerminal \in BOOLEAN :
       objs[self].kind \in {"query", "result"} /\ ToRecipe(self, stripTerminal)
  \/ \E self \in Unbounds, data \in Datasets : RunData(self, data)
  \/ \E self \in Bounds, recipe \in Unbounds : RunRecipe(self, recipe)

Spec == Init /\ [][Next]_vars

----------------------------------------------------------------------------
(* Materialization and sorting over records with null, absent and equal    *)
(* sort keys.                                                              *)

RecordAt(at, id, type, price) ==
  Rec(at, [id |-> Num(id), type |-> Str(type), price |-> price])

\* Records 3 and 4 are two objects with the same fields; 2 and 5 have a
\* null price.
DatasetN ==
  <<RecordAt(1, 1, "Premium", Num(300)), RecordAt(2, 2, "Basic", Null),
    RecordAt(3, 3, "Premium", Num(50)), RecordAt(4, 3, "Premium", Num(50)),
    RecordAt(5, 5, "Basic", Null)>>

\* The second record has no price at all.
DatasetM ==
  <<RecordAt(6, 6, "Premium", Num(300)),
    Rec(7, [id |-> Num(7), type |-> Str("Basic")]),
    RecordAt(8, 8, "Premium", Num(50))>>

\* query({ items: data }).array("items"), the caller holding `data`.
InitArray(data) ==
  InitWith(array([objs |-> <<>>, logs |-> <<data>>], Root(1), P("items")),
           [method |-> "array", root |-> Root(1), path |-> P("items")])

SortBy(self, direction) ==
  Do(self, [method |-> "sort", path |-> P("price"), direction |-> direction])

InitSort == InitArray(DatasetN) \/ InitArray(DatasetM)

NextSort ==
  \/ \E self \in Queries : WhereEquals(self)
  \/ \E self \in Queries : WhereGreaterThan(self)
  \/ \E self \in Queries, direction \in {"asc", "desc"} : SortBy(self, direction)
  \/ \E self \in Queries : All(self)

SpecSort == InitSort /\ [][NextSort]_vars

----------------------------------------------------------------------------
(* Provenance: paths and indices of the surviving records, over an array   *)
(* and over the flattened arrays of a groups object.                       *)

\* ObjectGroupQuery.flatArrayWithMetadata: `entries` is the list of the
\* [key, value] entries of the groups object, in Object.entries order.
flatArrayWithMetadata(entries, arrayPath) ==
  LET looked == [g \in 1..Len(entries) |-> getByPath(entries[g].value, arrayPath)]
      bad == {g \in 1..Len(entries) : ~looked[g].ok \/ ~IsArr(looked[g].v)}
      first == CHOOSE g \in bad : \A h \in bad : g <= h
      F[g \in 0..Len(entries)] ==
        IF g = 0 THEN <<>>
        ELSE F[g - 1] \o [t \in 1..Len(looked[g].v.a) |->
                            [item |-> looked[g].v.a[t],
                             meta |-> [groupKey |-> entries[g].key,
                                       itemIndex |-> t - 1]]]
  IN IF bad # {}
     THEN (IF ~looked[first].ok THEN Err(looked[first].err)
           ELSE Err("Expected array at path in group"))
     ELSE Ok(F[Len(entries)])

\* ObjectGroupQuery.arrays(arrayPath)
arrays(H, entries, groupsRootPath, arrayPath) ==
  Eager(flatArrayWithMetadata(entries, arrayPath), LAMBDA flat :
    IF ~flat.ok THEN Throw(H, flat.err)
    ELSE _bound(AllocLog(H, [k \in 1..Len(flat.v) |-> flat.v[k].item]),
                Len(H.logs) + 1,
                Some([groupsRootPath |-> Some(groupsRootPath),
                      arrayPath |-> Some(arrayPath),
                      itemMetadata |->
                        Some([k \in 1..Len(flat.v) |-> flat.v[k].meta])])))

\* { north: { items: [...] }, south: { items: [...] } }
Sections ==
  <<[key |-> "north",
     value |-> Obj([items |-> Arr(<<RecordAt(11, 11, "Basic", Num(20)),
                                    RecordAt(12, 12, "Premium", Num(300))>>)])],
    [key |-> "south",
     value |-> Obj([items |-> Arr(<<RecordAt(13, 13, "Premium", Num(500))>>)])]>>

\* An array holding a NaN between two records.
DatasetV ==
  <<RecordAt(9, 9, "Premium", Num(10)), NaN, RecordAt(10, 10, "Basic", Num(20))>>

\* query(root).objectGroups("sections").arrays("items")
InitGroups ==
  InitWith(arrays(EmptyHeap, Sections, P("sections"), P("items")),
           [method |-> "arrays", entries |-> Sections,
            groupsRootPath |-> P("sections"), arrayPath |-> P("items")])

WhereNotEquals(self) ==
  Do(self, [method |-> "whereEquals", path |-> P("type"), negate |-> TRUE,
            value |-> Str("Premium")])

Path(self) == Do(self, [method |-> "path"])

Index(self) == Do(self, [method |-> "index"])

AllWithIndex(self) == Do(self, [method |-> "allWithIndex"])

\* `random` stands for the value Math.random() returns, in quarters.
RandomWithPath(self, random) ==
  Do(self, [method |-> "randomWithPath", random |-> random])

InitPath == InitArray(DatasetN) \/ InitArray(DatasetV) \/ InitGroups

NextPath ==
  \/ \E self \in Queries : WhereEquals(self)
  \/ \E self \in Queries : WhereNotEquals(self)
  \/ \E self \in Queries, direction \in {"asc", "desc"} : SortBy(self, direction)
  \/ \E self \in Queries : Path(self)
  \/ \E self \in Queries : Index(self)
  \/ \E self \in Queries : AllWithIndex(self)
  \/ \E self \in Queries, random \in 0..3 : RandomWithPath(self, random)

SpecPath == InitPath /\ [][NextPath]_vars

----------------------------------------------------------------------------
(* Guards: the operations that exist in bound mode only, and one().        *)

WhereTypeIs(self, value) ==
  Do(self, [method |-> "whereEquals", path |-> P("type"), negate |-> FALSE,
            value |-> Str(value)])

\* one() and one(message)
One(self, message) == Do(self, [method |-> "one", message |-> message])

Pluck(self) == Do(self, [method |-> "pluck", path |-> P("price")])

Pick(self) == Do(self, [method |-> "pick", path |-> P("id")])

Aggregate(self) == Do(self, [method |-> "aggregate"])

Partition(self) == Do(self, [method |-> "partition", fn |-> "isPremium"])

InitGuard ==
  \/ InitWith(arrayPipeline(EmptyHeap), [method |-> "arrayPipeline"])
  \/ InitArray(DatasetB)

NextGuard ==
  \/ \E self \in Queries, value \in {"Premium", "Gold"} : WhereTypeIs(self, value)
  \/ \E self \in Queries, message \in {Undefined, Some("Expected one item")} :
       One(self, message)
  \/ \E self \in Queries : Pluck(self)
  \/ \E self \in Queries : Pick(self)
  \/ \E self \in Queries : Path(self)
  \/ \E self \in Queries : Index(self)
  \/ \E self \in Queries : AllWithIndex(self)
  \/ \E self \in Queries : Aggregate(self)
  \/ \E self \in Queries : Partition(self)
  \/ \E self \in Queries, random \in {0, 3} : RandomWithPath(self, random)

SpecGuard == InitGuard /\ [][NextGuard]_vars

----------------------------------------------------------------------------
(* Composite filter expressions.                                           *)

\* The second record's type contains the word "and" between blanks.
DatasetF ==
  <<RecordAt(21, 1, "Premium", Num(300)),
    RecordAt(22, 2, "Basic and Premium", Num(50)),
    RecordAt(23, 3, "Premium", Num(500))>>

\* type == 'Premium'
AtomA == <<"type", "==", "'", "Premium", "'">>
\* price > 100
AtomB == <<"price", ">", "100">>
\* type == 'Basic and Premium'
AtomC == <<"type", "==", "'", "Basic", " and ", "Premium", "'">>

Atoms == {AtomA, AtomB, AtomC}

\* One to MaxAtoms different comparisons, and a logical operator between
\* each two neighbours.
FilterInputs ==
  UNION {{[atoms |-> a, ops |-> o] :
            a \in {f \in [1..n -> Atoms] : \A i, j \in 1..n : i # j => f[i] # f[j]},
            o \in [1..(n - 1) -> {"and", "or"}]} :
         n \in 1..MaxAtoms}

\* The expression string of an input: e1 op1 e2 op2 e3 ...
RECURSIVE Compose(_, _)
Compose(in, n) ==
  IF n = 1 THEN in.atoms[1]
  ELSE Compose(in, n - 1)
         \o <<IF in.ops[n - 1] = "and" THEN " and " ELSE " or ">>
         \o in.atoms[n]

Expressions == {Compose(in, Len(in.atoms)) : in \in FilterInputs}

FilterBy(self, expression) ==
  /\ Len(objs) < MaxFilterObjs
  /\ Do(self, [method |-> "filter", expression |-> expression])

AllFiltered(self) ==
  /\ Len(objs) < MaxFilterObjs
  /\ All(self)

InitFilter == InitArray(DatasetF)

NextFilter ==
  \/ \E self \in Queries, expression \in Expressions : FilterBy(self, expression)
  \/ \E self \in Queries : AllFiltered(self)

SpecFilter == InitFilter /\ [][NextFilter]_vars

----------------------------------------------------------------------------
(* Single comparisons in several spellings, and malformed expressions.     *)

\* The word-form operators as the grammar writes them, and in other letter
\* cases.
OperatorSpellings ==
  {"contains", "CONTAINS", "Contains", "startsWith", "STARTSWITH", "startswith",
   "endsWith", "ENDSWITH", "not", "NOT"}

\* type <operator> Pre
WordExpression(operator) == <<"type", operator, "Pre">>

\* Expressions with a clause in which no operator is recognized: `written` is
\* that clause as the caller wrote it, `trimmed` the same without the blanks
\* around it.
MalformedInputs ==
  {[expression |-> <<"bogus">>, written |-> <<"bogus">>, trimmed |-> <<"bogus">>],
   [expression |-> <<"type", "~", "Pre">>, written |-> <<"type", "~", "Pre">>,
    trimmed |-> <<"type", "~", "Pre">>],
   [expression |-> <<" ", "bogus">>, written |-> <<" ", "bogus">>,
    trimmed |-> <<"bogus">>],
   [expression |-> AtomA \o <<" and ", "bogus">>, written |-> <<"bogus">>,
    trimmed |-> <<"bogus">>],
   [expression |-> <<"bogus", " or ">> \o AtomB, written |-> <<"bogus">>,
    trimmed |-> <<"bogus">>],
   [expression |-> AtomA \o <<" and ", " ", "bogus">>, written |-> <<" ", "bogus">>,
    trimmed |-> <<"bogus">>]}

ParseExpressions ==
  {WordExpression(operator) : operator \in OperatorSpellings}
    \cup {in.expression : in \in MalformedInputs}
    \cup {<<" ">>}

NextParse ==
  \/ \E self \in Queries, expression \in ParseExpressions : FilterBy(self, expression)
  \/ \E self \in Queries : AllFiltered(self)

SpecParse == InitFilter /\ [][NextParse]_vars

----------------------------------------------------------------------------
(* Comparisons and their negations.                                        *)

\* Largest number of objects held while negations are compared.
MaxNegObjs == 3

\* The type is written in two letter cases, is null, or is missing; the
\* price is above, at or below 100, is null, or is missing.
DatasetG ==
  <<RecordAt(31, 1, "Premium", Num(300)),
    RecordAt(32, 2, "PREMIUM", Num(100)),
    Rec(33, [id |-> Num(3), type |-> Str("Basic")]),
    Rec(34, [id |-> Num(4), price |-> Num(50)]),
    Rec(35, [id |-> Num(5), type |-> Null, price |-> Null])>>

\* The fields compared for equality, and the value each is compared with.
EqualsTargets ==
  {[path |-> P("type"), value |-> Str("Premium")],
   [path |-> P("price"), value |-> Num(100)]}

\* equals(value) and equals(value, { ignoreCase: false })
EqualsOptions == {Undefined, Some([ignoreCase |-> Some(FALSE), trim |-> Undefined])}

Comparisons == {"greaterThan", "greaterThanOrEqual", "lessThan", "lessThanOrEqual"}

\* where(path).equals(value, options) and whereNot(path).equals(value, options)
WhereEqualsOf(self, negate, target, options) ==
  /\ Len(objs) < MaxNegObjs
  /\ Do(self, [method |-> "whereEquals", path |-> target.path, negate |-> negate,
               value |-> target.value, options |-> options])

\* where("price").<comparison>(100) and whereNot("price").<comparison>(100)
WhereCompare(self, negate, comparison) ==
  /\ Len(objs) < MaxNegObjs
  /\ Do(self, [method |-> "whereCompare", path |-> P("price"), negate |-> negate,
               comparison |-> comparison, value |-> Num(100)])

InitNeg == InitArray(DatasetG)

NextNeg ==
  \/ \E self \in Queries, negate \in BOOLEAN, target \in EqualsTargets,
         options \in EqualsOptions : WhereEqualsOf(self, negate, target, options)
  \/ \E self \in Queries, negate \in BOOLEAN, comparison \in Comparisons :
       WhereCompare(self, negate, comparison)

SpecNeg == InitNeg /\ [][NextNeg]_vars

----------------------------------------------------------------------------
(* A builder kept by the caller and finished more than once.               *)

\* Largest number of calls made while builders are kept.
MaxBuilderCalls == 5

\* The builders the caller holds.
Builders == {id \in 1..Len(objs) : objs[id].kind = "builder"}

\* The values a kept builder is finished with.
ReuseValues == {Str("Premium"), Str(" Premium ")}

\* The modifiers of a builder that take no argument.
Modifiers == {"not", "caseSensitive", "noTrim"}

\* const b = self.where("type")
Where(self) ==
  /\ Len(hist) < MaxBuilderCalls
  /\ Do(self, [method |-> "where", path |-> P("type")])

\* b.not(), b.caseSensitive(), b.noTrim()
Modify(b, modifier) ==
  /\ Len(hist) < MaxBuilderCalls
  /\ Do(b, [method |-> modifier])

\* b.equals(value, options)
Equals(b, value, options) ==
  /\ Len(hist) < MaxBuilderCalls
  /\ Do(b, [method |-> "equals", value |-> value, options |-> options])

InitReuse == InitArray(DatasetG)

NextReuse ==
  \/ \E self \in Queries : Where(self)
  \/ \E b \in Builders, modifier \in Modifiers : Modify(b, modifier)
  \/ \E b \in Builders, value \in ReuseValues, options \in EqualsOptions :
       Equals(b, value, options)

SpecReuse == InitReuse /\ [][NextReuse]_vars

----------------------------------------------------------------------------
(* The two path accessors, called directly.                                *)

\* Largest number of lookups whose outcome the caller keeps.
MaxLookups == 2

\* Objects with a leaf that is a number, explicitly undefined, or absent,
\* with a null or undefined value on the way, and with an array that holds
\* an undefined element.
LookupObjects ==
  {Obj([a |-> Obj([b |-> Num(1)])]),
   Obj([a |-> Obj([b |-> Undef])]),
   Obj([a |-> Obj([c |-> Num(1)])]),
   Obj([a |-> Null]),
   Obj([a |-> Undef]),
   Obj([items |-> Arr(<<Undef, Obj([b |-> Undef])>>)])}

\* "a.b", "a", "items[0]", "items[1].b" and "items[2]"
LookupPaths ==
  {<<Seg("a"), Seg("b")>>, P("a"), <<SegAt("items", 0)>>,
   <<SegAt("items", 1), Seg("b")>>, <<SegAt("items", 2)>>}

\* getByPath(obj, path) or getByPathStrict(obj, path), its outcome kept.
Lookup(strict, obj, segs) ==
  /\ Len(objs) < MaxLookups
  /\ \E r \in {IF strict THEN getByPathStrict(obj, segs) ELSE getByPath(obj, segs)} :
       \E R \in {IF r.ok THEN Value(Heap, r.v) ELSE Throw(Heap, r.err)} :
         /\ objs' = R.objs
         /\ logs' = R.logs
         /\ hist' = Append(hist,
                       [self |-> 0, ret |-> R.ret,
                        call |-> [method |-> IF strict THEN "getByPathStrict"
                                             ELSE "getByPath",
                                  obj |-> obj, path |-> segs],
                        pre |-> R.objs[R.ret], post |-> R.objs[R.ret]])

InitLookup == objs = <<>> /\ logs = <<>> /\ hist = <<>>

NextLookup ==
  \E strict \in BOOLEAN, obj \in LookupObjects, segs \in LookupPaths :
    Lookup(strict, obj, segs)

SpecLookup == InitLookup /\ [][NextLookup]_vars

----------------------------------------------------------------------------
(* run on inputs that are arrays and on inputs that are not.               *)

\* What a pure pipeline is run on: a number, a plain object, null, or the
\* caller's array.
PipelineInputs == {Num(123), Obj([total |-> Num(3)]), Null, ArrRef(1)}

\* What a recipe with the embedded path "items" is run on: a root whose
\* items are a number, a plain object or null, and the caller's root.
RecipeInputs ==
  {Obj([items |-> Num(123)]), Obj([items |-> Obj([total |-> Num(3)])]),
   Obj([items |-> Null]), Root(1)}

\* pipeline.run(input)
RunInput(self, input) == Do(self, [method |-> "run", input |-> [v |-> input]])

InitRun ==
  \/ InitWith(arrayPipeline([objs |-> <<>>, logs |-> <<DatasetA>>]),
              [method |-> "arrayPipeline"])
  \/ InitArray(DatasetA)

NextRun ==
  \/ \E self \in Queries : WhereEquals(self)
  \/ \E self \in Queries : All(self)
  \/ \E self \in Queries : Count(self)
  \/ \E self \in Bounds : ToRecipe(self, FALSE)
  \/ \E self \in Unbounds, input \in PipelineInputs :
       ~IsDefined(objs[self].arrayPath) /\ RunInput(self, input)
  \/ \E self \in Unbounds, input \in RecipeInputs :
       IsDefined(objs[self].arrayPath) /\ RunInput(self, input)

SpecRun == InitRun /\ [][NextRun]_vars

----------------------------------------------------------------------------
(* take and drop with counts below, within and beyond the items.           *)

\* Largest number of objects held while sub-lists are taken.
MaxSliceObjs == 3

\* Counts that are negative, zero, within the three items of the dataset,
\* equal to their number, and beyond it.
SliceCounts == {0 - 1, 0, 2, 3, 4}

TakeN(self, n) ==
  /\ Len(objs) < MaxSliceObjs
  /\ Do(self, [method |-> "take", n |-> n])

DropN(self, n) ==
  /\ Len(objs) < MaxSliceObjs
  /\ Do(self, [method |-> "drop", n |-> n])

AllSliced(self) ==
  /\ Len(objs) < MaxSliceObjs
  /\ All(self)

TakeWhile(self) ==
  /\ Len(objs) < MaxSliceObjs
  /\ Do(self, [method |-> "takeWhile", fn |-> "isPremium"])

DropWhile(self) ==
  /\ Len(objs) < MaxSliceObjs
  /\ Do(self, [method |-> "dropWhile", fn |-> "isPremium"])

PathSliced(self) ==
  /\ Len(objs) < MaxSliceObjs
  /\ Path(self)

IndexSliced(self) ==
  /\ Len(objs) < MaxSliceObjs
  /\ Index(self)

InitSlice == InitArray(DatasetM)

NextSlice ==
  \/ \E self \in Queries, n \in SliceCounts : TakeN(self, n)
  \/ \E self \in Queries, n \in SliceCounts : DropN(self, n)
  \/ \E self \in Queries : AllSliced(self)
  \/ \E self \in Queries : TakeWhile(self)
  \/ \E self \in Queries : DropWhile(self)
  \/ \E self \in Queries : PathSliced(self)
  \/ \E self \in Queries : IndexSliced(self)

SpecSlice == InitSlice /\ [][NextSlice]_vars

----------------------------------------------------------------------------
(* Reading the call history.  Every call hands the caller one new object,  *)
(* so the object with index k is the one returned by the call hist[k].     *)

Events == 1..Len(hist)

ChainMethods ==
  {"whereEquals", "whereGreaterThan", "sort", "take", "drop", "map"}
TerminalMethods == {"all", "count"}

IsRunData(k) == hist[k].call.method = "run" /\ "v" \in DOMAIN hist[k].call.input
IsRunRecipe(k) == hist[k].call.method = "run" /\ "ref" \in DOMAIN hist[k].call.input

\* The calls that built object id from its root, oldest first.
RECURSIVE CallsOf(_)
CallsOf(id) ==
  IF hist[id].self = 0 THEN <<>>
  ELSE Append(CallsOf(hist[id].self), hist[id].call)

RECURSIVE RootOf(_)
RootOf(id) == IF hist[id].self = 0 THEN id ELSE RootOf(hist[id].self)

OnlyCalls(id, methods) ==
  \A i \in 1..Len(CallsOf(id)) : CallsOf(id)[i].method \in methods

\* id was built from arrayPipeline() by chain calls and terminals alone.
IsPurePipeline(id) ==
  /\ hist[RootOf(id)].call.method = "arrayPipeline"
  /\ OnlyCalls(id, ChainMethods \cup TerminalMethods)

\* id was built from query(root).array(path) by chain calls alone.
IsBoundChain(id) ==
  /\ hist[RootOf(id)].call.method = "array"
  /\ OnlyCalls(id, ChainMethods)
  /\ objs[id].kind = "query"

\* The calls made one after the other, as the caller would chain them; an
\* exception ends the chain.
RECURSIVE ApplyCalls(_, _, _)
ApplyCalls(R, calls, i) ==
  IF i > Len(calls) \/ R.objs[R.ret].kind = "error" THEN R
  ELSE Eager(Invoke(R, R.ret, calls[i]),
             LAMBDA R1 : ApplyCalls(R1, calls, i + 1))

\* The calls applied directly to a bound instance over an array holding D.
Direct(D, calls) ==
  Eager(ApplyCalls(_bound(AllocLog(EmptyHeap, D), 1, Undefined), calls, 1),
        LAMBDA R : Deref(R, R.ret))

----------------------------------------------------------------------------
----------------------------------------------------------------------------
(* C2 -- Bound/unbound parity.  Whenever a pipeline built from             *)
(* arrayPipeline() by a sequence S of chain calls (optionally ending in a  *)
(* terminal) is run on an array D, what run returns is deeply equal to     *)
(* what the same calls S return when made directly on a bound instance     *)
(* over D.                                                                 *)
C2_BoundUnboundParity ==
  \A k \in Events :
    IsRunData(k) /\ IsPurePipeline(hist[k].self) =>
      hist[k].post = Direct(logs[hist[k].call.input.v.ar], CallsOf(hist[k].self))

\* A pipeline of a filter and a terminal was run and produced a value.
C2_Witness ==
  \E k \in Events :
    /\ IsRunData(k) /\ IsPurePipeline(hist[k].self)
    /\ \E i, j \in 1..Len(CallsOf(hist[k].self)) :
         /\ i < j
         /\ CallsOf(hist[k].self)[i].method \in ChainMethods
         /\ CallsOf(hist[k].self)[j].method \in TerminalMethods
    /\ hist[k].post.kind \in {"value", "result"}

\* The materialized records of the bound instance id, or the error that
\* materializing it throws.
Materialized(id) ==
  Eager(_executeFilter(Heap, id),
        LAMBDA R : IF R.ok THEN Ok(R.logs[R.ref]) ELSE Err(R.err))

\* The array a bound chain was created over.
OriginalData(id) == Prop(hist[RootOf(id)].call.root, "items").ar

(* C3 -- Recipe round-trip.  For every bound chain built by chain calls    *)
(* over originalData, chain.toRecipe().run(originalData) is a bound        *)
(* instance that materializes to exactly the chain's own materialized      *)
(* result: the same records in the same order.                             *)
C3_RecipeRoundTrip ==
  \A r \in Events :
    IsRunData(r) /\ hist[hist[r].self].call.method = "toRecipe" =>
      LET recipe == hist[r].self
          chain == hist[recipe].self
      IN (/\ ~hist[recipe].call.stripTerminal
          /\ IsBoundChain(chain)
          /\ hist[r].call.input.v \in
               {ArrRef(OriginalData(chain)), Root(OriginalData(chain))}) =>
           /\ objs[r].kind = "query"
           /\ Materialized(r) = Materialized(chain)

(* C4 -- run depends only on the step log and the data.  Two runs of       *)
(* unbound pipelines with equal step logs (and equal embedded path) on the *)
(* same input return deeply equal results, whichever pipeline objects they *)
(* are and whatever was run in between; and a pipeline object is, at each  *)
(* run made on it and ever after, what it was when it was built.           *)
C4_RunDependsOnLogAndData ==
  /\ \A j, k \in Events :
       (/\ IsRunData(j) /\ IsRunData(k)
        /\ hist[j].pre.steps = hist[k].pre.steps
        /\ hist[j].pre.arrayPath = hist[k].pre.arrayPath
        /\ hist[j].call.input = hist[k].call.input) =>
         hist[j].post = hist[k].post
  /\ \A k \in Events :
       IsRunData(k) =>
         /\ hist[k].pre = hist[hist[k].self].post
         /\ Deref(Heap, hist[k].self) = hist[k].pre

\* One pipeline object with a filter was run on dataset A and later on
\* dataset B, with different results.
C4_Witness ==
  \E j, k \in Events :
    /\ j < k /\ IsRunData(j) /\ IsRunData(k)
    /\ hist[j].self = hist[k].self
    /\ hist[j].pre.steps # <<>>
    /\ hist[j].call.input # hist[k].call.input
    /\ hist[j].post # hist[k].post

\* The step a chain call records, checked by method and arguments.
IsStepOf(step, call) ==
  CASE call.method \in {"whereEquals", "whereGreaterThan"} ->
         \/ step.method = "_pushClause" /\ step.clause.path = call.path
         \/ isWhereStep(step) /\ step.path = call.path
    [] call.method = "sort" ->
         step = [method |-> "sort", path |-> call.path, direction |-> call.direction]
    [] OTHER -> step = call

(* C5 -- Every chain call on a Bound instance returns an instance whose    *)
(* step log is the receiver's step log with one equivalent step appended.  *)
C5_BoundCallAppendsStep ==
  \A k \in Events :
    (/\ hist[k].self # 0
     /\ hist[k].call.method \in ChainMethods
     /\ hist[k].pre.kind = "query" /\ IsDefined(hist[k].pre.items)
     /\ hist[k].post.kind = "query") =>
      /\ Len(hist[k].post.steps) = Len(hist[k].pre.steps) + 1
      /\ SubSeq(hist[k].post.steps, 1, Len(hist[k].pre.steps)) = hist[k].pre.steps
      /\ IsStepOf(hist[k].post.steps[Len(hist[k].post.steps)], hist[k].call)

(* C6 -- The recipe returned by toRecipe does not share a mutable step log *)
(* with its source.  The recipe's steps array is not the source's array,   *)
(* and through every later call on either of them the source stays what it *)
(* was at the extraction (its step log, and with its items and clauses its *)
(* results) and the recipe keeps the step log it was extracted with.       *)
C6_RecipeOwnsItsLog ==
  \A k \in Events :
    hist[k].call.method = "toRecipe" =>
      /\ objs[k].kind = "query"
      /\ objs[k].steps # objs[hist[k].self].steps
      /\ Deref(Heap, hist[k].self) = hist[k].pre
      /\ Deref(Heap, k) = hist[k].post

\* After an extraction, a chain call was made on the recipe and another on
\* the source.
C6_Witness ==
  \E k, i, j \in Events :
    /\ hist[k].call.method = "toRecipe"
    /\ i > k /\ j > k
    /\ hist[i].self = k /\ hist[i].call.method \in ChainMethods
    /\ hist[j].self = hist[k].self /\ hist[j].call.method \in ChainMethods
    /\ hist[i].post.kind = "query" /\ hist[j].post.kind = "query"

(* C7 -- A terminal call on an Unbound instance executes nothing: it       *)
(* returns an instance that is still unbound and differs from the receiver *)
(* only in its step log, which is the receiver's log plus that terminal as *)
(* last step.  The terminal's value is produced by a later run(D), and is  *)
(* what the same terminal returns on the equivalent bound chain over D.    *)
C7_UnboundTerminalIsRecorded ==
  /\ \A k \in Events :
       (/\ hist[k].self # 0
        /\ hist[k].call.method \in TerminalMethods
        /\ hist[k].pre.kind = "query" /\ ~IsDefined(hist[k].pre.items)) =>
         /\ hist[k].post.kind = "query" /\ ~IsDefined(hist[k].post.items)
         /\ hist[k].post =
              [hist[k].pre EXCEPT !.steps = Append(@, [method |-> hist[k].call.method])]
  /\ \A r \in Events :
       (/\ IsRunData(r)
        /\ hist[hist[r].self].self # 0
        /\ hist[hist[r].self].call.method \in TerminalMethods
        /\ IsPurePipeline(hist[r].self)) =>
         /\ hist[r].post.kind \in {"value", "result", "error"}
         /\ hist[r].post = Direct(logs[hist[r].call.input.v.ar], CallsOf(hist[r].self))

\* A terminal was recorded on an unbound pipeline holding a filter, and a
\* later run of the returned pipeline produced the terminal's value.
C7_Witness ==
  \E k, r \in Events :
    /\ hist[k].self # 0
    /\ hist[k].call.method \in TerminalMethods
    /\ ~IsDefined(hist[k].pre.items) /\ hist[k].pre.steps # <<>>
    /\ IsRunData(r) /\ hist[r].self = k /\ IsPurePipeline(k)
    /\ hist[r].post.kind \in {"value", "result"}

\* The materialized records of an instance given as a snapshot.
MaterializedOf(o) ==
  Eager(_executeFilter([objs |-> <<[o EXCEPT !.steps = 1, !.items = Some(2)]>>,
                        logs |-> <<o.steps, Get(o.items)>>], 1),
        LAMBDA R : IF R.ok THEN Ok(R.logs[R.ref]) ELSE Err(R.err))

(* C8 -- Cross-application.  bound.run(recipe) equals the recipe's calls   *)
(* made on a fresh bound instance over bound's materialized (filtered and  *)
(* sorted) results; if materializing throws, run throws that error.        *)
C8_BoundRunReplaysOverResults ==
  \A k \in Events :
    IsRunRecipe(k) /\ IsPurePipeline(hist[k].call.input.ref) =>
      LET M == MaterializedOf(hist[k].pre) IN
      IF ~M.ok THEN hist[k].post = [kind |-> "error", msg |-> M.err]
      ELSE hist[k].post = Direct(M.v, CallsOf(hist[k].call.input.ref))

\* A recipe was applied to a bound instance whose clauses filter records
\* out, and the outcome is not what the recipe gives on the original items.
C8_Witness ==
  \E k \in Events :
    /\ IsRunRecipe(k) /\ IsPurePipeline(hist[k].call.input.ref)
    /\ hist[k].pre.clauses # <<>>
    /\ MaterializedOf(hist[k].pre).ok
    /\ Len(MaterializedOf(hist[k].pre).v) < Len(Get(hist[k].pre.items))
    /\ hist[k].post # Direct(Get(hist[k].pre.items), CallsOf(hist[k].call.input.ref))

(* C9 -- toRecipe(true) removes the terminal step and only the terminal    *)
(* step: the recipe's log is the source's log without its trailing         *)
(* terminal, and every filter, sort and transform step remains.            *)
C9_StripRemovesOnlyTerminal ==
  \A k \in Events :
    hist[k].call.method = "toRecipe" /\ hist[k].call.stripTerminal =>
      LET log == hist[k].pre.steps IN
      hist[k].post.steps =
        IF log # <<>> /\ log[Len(log)].method \in TerminalMethods
        THEN SubSeq(log, 1, Len(log) - 1) ELSE log

(* C10 -- In Bound mode map executes at once on the filtered-and-sorted    *)
(* view and returns a new Bound instance with no inherited clauses (and no *)
(* inherited sort): its items are the mapped materialized records of the   *)
(* receiver.  A clause added afterwards is the only clause, evaluated      *)
(* against the transform's output elements.                                *)
C10_BoundMapStartsFresh ==
  /\ \A k \in Events :
       (/\ hist[k].self # 0 /\ hist[k].call.method = "map"
        /\ hist[k].pre.kind = "query" /\ IsDefined(hist[k].pre.items)
        /\ hist[k].post.kind = "query") =>
         /\ MaterializedOf(hist[k].pre).ok
         /\ hist[k].post.items =
              Some(MapSeq(hist[k].call.fn, MaterializedOf(hist[k].pre).v))
         /\ hist[k].post.clauses = <<>>
         /\ ~IsDefined(hist[k].post.sortPath)
  /\ \A j \in Events :
       (/\ hist[j].self # 0
        /\ hist[j].call.method \in {"whereEquals", "whereGreaterThan"}
        /\ hist[hist[j].self].self # 0
        /\ hist[hist[j].self].call.method = "map"
        /\ hist[j].pre.kind = "query" /\ IsDefined(hist[j].pre.items)) =>
         /\ hist[j].post.items = hist[j].pre.items
         /\ Len(hist[j].post.clauses) = 1
         /\ MaterializedOf(hist[j].post) =
              Ok(FilterSeq(Get(hist[j].pre.items), hist[j].post.clauses[1]))

\* A bound instance whose clauses filter records out was mapped, and a
\* clause was then added to the outcome.
C10_Witness ==
  \E k, j \in Events :
    /\ hist[k].self # 0 /\ hist[k].call.method = "map"
    /\ IsDefined(hist[k].pre.items) /\ hist[k].pre.clauses # <<>>
    /\ hist[k].post.kind = "query"
    /\ Len(Get(hist[k].post.items)) < Len(Get(hist[k].pre.items))
    /\ Len(Get(hist[k].post.items)) > 0
    /\ hist[j].self = k
    /\ hist[j].call.method \in {"whereEquals", "whereGreaterThan"}

----------------------------------------------------------------------------
\* A call of `method` made on a bound instance.
IsBoundCall(k, method) ==
  /\ hist[k].self # 0
  /\ hist[k].call.method = method
  /\ hist[k].pre.kind = "query" /\ IsDefined(hist[k].pre.items)

(* C11, as stated -- all() on a Bound instance with zero accumulated       *)
(* clauses returns the underlying data unchanged: the same record objects  *)
(* in their original order.                                                *)
C11_ZeroClausesUnchanged ==
  \A k \in Events :
    IsBoundCall(k, "all") /\ hist[k].pre.clauses = <<>> =>
      /\ hist[k].post.kind = "result"
      /\ hist[k].post.elems = Get(hist[k].pre.items)

(* C11 -- all() on a Bound instance with zero accumulated clauses and no   *)
(* sort key set returns the underlying data unchanged: the same record     *)
(* objects (by identity) in their original order.                          *)
C11_ZeroClausesNoSortUnchanged ==
  \A k \in Events :
    (/\ IsBoundCall(k, "all") /\ hist[k].pre.clauses = <<>>
     /\ ~IsDefined(hist[k].pre.sortPath)) =>
      /\ hist[k].post.kind = "result"
      /\ hist[k].post.elems = Get(hist[k].pre.items)

\* all() was called on an instance without clauses or sort whose data holds
\* two different record objects with the same fields.
C11_Witness ==
  \E k \in Events :
    /\ IsBoundCall(k, "all") /\ hist[k].pre.clauses = <<>>
    /\ ~IsDefined(hist[k].pre.sortPath)
    /\ hist[k].post.kind = "result"
    /\ \E i, j \in 1..Len(hist[k].post.elems) :
         /\ i # j
         /\ hist[k].post.elems[i] # hist[k].post.elems[j]
         /\ CopyOf(hist[k].post.elems[i]) = CopyOf(hist[k].post.elems[j])
----------------------------------------------------------------------------
\* The elements of `items` that satisfy every clause of `clauses`, in the
\* order they have in `items`.
SatisfyingAll(items, clauses) ==
  LET F[k \in 0..Len(items)] ==
        IF k = 0 THEN <<>>
        ELSE IF \A c \in 1..Len(clauses) : Matches(clauses[c], items[k])
             THEN Append(F[k - 1], items[k]) ELSE F[k - 1]
  IN F[Len(items)]

\* What all() gives for the already filtered records `kept` under the sort
\* settings of the instance o: the records or the error of the sort.
SortedView(kept, o) ==
  IF ~IsDefined(o.sortPath) THEN Ok(kept)
  ELSE SortLooked(kept, SortKeys(kept, Get(o.sortPath)), o.sortDirection)

(* C12 -- all() on a Bound instance with one or more clauses returns       *)
(* exactly the records of the underlying data that satisfy every           *)
(* accumulated clause, in their original relative order when no sort key   *)
(* is set; when one is set the sort is applied to the filtered records     *)
(* (so a record the clauses exclude takes no part in the sort).            *)
C12_AllIsConjunctionThenSort ==
  \A k \in Events :
    IsBoundCall(k, "all") /\ hist[k].pre.clauses # <<>> =>
      LET kept == SatisfyingAll(Get(hist[k].pre.items), hist[k].pre.clauses)
          view == SortedView(kept, hist[k].pre)
      IN IF view.ok
         THEN hist[k].post.kind = "result" /\ hist[k].post.elems = view.v
         ELSE hist[k].post = [kind |-> "error", msg |-> view.err]

\* all() was called with two clauses, and the records it returned are not
\* the ones the second clause alone lets through.
C12_Witness ==
  \E k \in Events :
    /\ IsBoundCall(k, "all") /\ Len(hist[k].pre.clauses) = 2
    /\ hist[k].post.kind = "result"
    /\ hist[k].post.elems # <<>>
    /\ hist[k].post.elems #
         SatisfyingAll(Get(hist[k].pre.items), <<hist[k].pre.clauses[2]>>)

\* all() was called with a clause and a sort over data whose record without
\* a sort key the clause had filtered out.
SortAfterFilterReached ==
  \E k \in Events :
    /\ IsBoundCall(k, "all") /\ hist[k].pre.clauses # <<>>
    /\ IsDefined(hist[k].pre.sortPath)
    /\ hist[k].post.kind = "result"
    /\ Len(hist[k].post.elems) >= 2
    /\ ~SortedView(Get(hist[k].pre.items), hist[k].pre).ok
----------------------------------------------------------------------------
\* The record has no value at the sort path: the value is null or absent.
LacksValue(item, sortPath) == IsNullish(SiftGet(item, sortPath, 1))

\* all() on a bound instance with a sort key set.
IsSortedAll(k) == IsBoundCall(k, "all") /\ IsDefined(hist[k].pre.sortPath)

(* C13 -- After sort(path, direction), the records whose value at the sort *)
(* path is null or missing are placed after all the records that have a    *)
(* value, whether the direction is asc or desc: all() returns the records, *)
(* and no record without a value comes before one with a value.            *)
C13_NullAndMissingLast ==
  \A k \in Events :
    IsSortedAll(k) =>
      /\ hist[k].post.kind = "result"
      /\ \A i, j \in 1..Len(hist[k].post.elems) :
           (/\ i < j
            /\ LacksValue(hist[k].post.elems[i], Get(hist[k].pre.sortPath))) =>
             LacksValue(hist[k].post.elems[j], Get(hist[k].pre.sortPath))

\* The positions in `items` of the object x.
PositionsOf(items, x) == {p \in 1..Len(items) : items[p] = x}

\* The sort keys of two records are equal: both lack a value, or both have
\* the same one.
EqualKeys(a, b, sortPath) ==
  \/ LacksValue(a, sortPath) /\ LacksValue(b, sortPath)
  \/ /\ ~LacksValue(a, sortPath) /\ ~LacksValue(b, sortPath)
     /\ SiftGet(a, sortPath, 1) = SiftGet(b, sortPath, 1)

(* C14 -- Sorting is stable: in what all() returns from a sorted instance, *)
(* two records with equal sort keys (two records that both lack a value    *)
(* included) stand in the relative order they have in the underlying data, *)
(* for direction asc and for direction desc.                               *)
C14_SortIsStable ==
  \A k \in Events :
    IsSortedAll(k) /\ hist[k].post.kind = "result" =>
      \A i, j \in 1..Len(hist[k].post.elems) :
        (/\ i < j
         /\ EqualKeys(hist[k].post.elems[i], hist[k].post.elems[j],
                      Get(hist[k].pre.sortPath))) =>
          \A p \in PositionsOf(Get(hist[k].pre.items), hist[k].post.elems[i]),
             q \in PositionsOf(Get(hist[k].pre.items), hist[k].post.elems[j]) :
            p < q

\* A sorted instance returned, in each direction, two records with the same
\* price and two records with a null price.
C14_Witness ==
  \E k \in Events :
    /\ IsSortedAll(k) /\ hist[k].post.kind = "result"
    /\ hist[k].pre.sortDirection = "desc"
    /\ hist[k].post.elems # Get(hist[k].pre.items)
    /\ \E i, j \in 1..Len(hist[k].post.elems) :
         /\ i < j
         /\ ~LacksValue(hist[k].post.elems[i], Get(hist[k].pre.sortPath))
         /\ EqualKeys(hist[k].post.elems[i], hist[k].post.elems[j],
                      Get(hist[k].pre.sortPath))
    /\ \E i, j \in 1..Len(hist[k].post.elems) :
         /\ i < j
         /\ hist[k].post.elems[i].o.price = Null
         /\ hist[k].post.elems[j].o.price = Null
----------------------------------------------------------------------------
(* C15 -- Evaluation is side-effect-free on its input: after any sequence  *)
(* of chain calls, terminals and run calls (sort included), each dataset   *)
(* array the caller supplied holds the same record objects in the same     *)
(* order as before.                                                        *)
C15_InputUntouched ==
  /\ logs[DataRefA] = DatasetA
  /\ logs[DataRefB] = DatasetB

\* An instance bound directly over the caller's array, with a sort and no
\* clause, was materialized, and a pipeline with a sort was run on the
\* caller's array.
C15_Witness ==
  /\ \E k \in Events :
       /\ hist[k].self # 0
       /\ hist[k].call.method \in TerminalMethods \cup {"take", "drop", "map"}
       /\ objs[hist[k].self].items = Some(DataRefA)
       /\ IsDefined(hist[k].pre.sortPath) /\ hist[k].pre.clauses = <<>>
       /\ hist[k].post.kind # "error"
  /\ \E k \in Events :
       /\ IsRunData(k)
       /\ \E i \in 1..Len(hist[k].pre.steps) : hist[k].pre.steps[i].method = "sort"
       /\ hist[k].post.kind # "error"
----------------------------------------------------------------------------
\* The call that created the root of the chain the receiver of hist[k]
\* belongs to.
RootCall(k) == hist[RootOf(hist[k].self)].call

\* Where the record object `rec` lies in the source the chain of hist[k]
\* was created from, written as a path: in the array at arrayPath, or in
\* the array at arrayPath of one of the groups.
Located(k, rec) ==
  IF RootCall(k).method = "array"
  THEN LET source == logs[Prop(RootCall(k).root, "items").ar]
           p == CHOOSE p \in 1..Len(source) : source[p] = rec
       IN PathText(RootCall(k).path) \o Bracket(p - 1)
  ELSE LET entries == RootCall(k).entries
           places == UNION {{<<g, t>> :
                               t \in 1..Len(Prop(entries[g].value, "items").a)} :
                             g \in 1..Len(entries)}
           at == CHOOSE gt \in places :
                   Prop(entries[gt[1]].value, "items").a[gt[2]] = rec
       IN PathText(RootCall(k).groupsRootPath) \o "." \o entries[at[1]].key
            \o "." \o PathText(RootCall(k).arrayPath) \o Bracket(at[2] - 1)

(* C16 -- path() reports, for each surviving record, where that record     *)
(* object lies in the original pre-filter source: <arrayPath>[<original    *)
(* index>] for array-sourced data, and <groupsRootPath>.<groupKey>.        *)
(* <arrayPath>[<itemIndex>] for flattened group-sourced data, whatever     *)
(* filters and sort are in effect.                                         *)
C16_PathsLocateRecords ==
  \A k \in Events :
    IsBoundCall(k, "path") /\ hist[k].post.kind = "PathQuery" =>
      LET M == MaterializedOf(hist[k].pre).v IN
      /\ Len(hist[k].post.paths) = Len(M)
      /\ \A i \in 1..Len(M) :
           IsObj(M[i]) => hist[k].post.paths[i] = Located(k, M[i])

\* path() was called on a filtered instance over flattened groups, and the
\* first surviving record is not the first record of the source.
C16_Witness ==
  \E k \in Events :
    /\ IsBoundCall(k, "path") /\ hist[k].post.kind = "PathQuery"
    /\ RootCall(k).method = "arrays"
    /\ hist[k].pre.clauses # <<>>
    /\ Len(hist[k].post.paths) = 2
    /\ hist[k].post.paths[1] = "sections.north.items[1]"
    /\ hist[k].post.paths[2] = "sections.south.items[0]"

\* The same for an array-sourced instance whose data holds two record
\* objects with the same fields.
ArrayPathsReached ==
  \E k \in Events :
    /\ IsBoundCall(k, "path") /\ hist[k].post.kind = "PathQuery"
    /\ RootCall(k).method = "array"
    /\ hist[k].pre.clauses # <<>> /\ IsDefined(hist[k].pre.sortPath)
    /\ hist[k].post.paths = <<"items[2]", "items[3]", "items[0]">>

\* The provenance calls.
ProvenanceMethods == {"path", "index", "allWithIndex", "randomWithPath"}

\* The index reported for the i-th surviving record by the outcome `post`
\* of the provenance call `call` is its position i - 1 among the results.
ReportsPosition(call, post, arrayPath, i, n) ==
  LET fallbacks == {Bracket(i - 1)} \cup
                   (IF IsDefined(arrayPath)
                    THEN {PathText(Get(arrayPath)) \o Bracket(i - 1)} ELSE {})
  IN CASE call.method = "path" ->
            post.kind = "PathQuery" /\ post.paths[i] \in fallbacks
       [] call.method = "index" ->
            post.kind = "IndexQuery" /\ post.indices[i] = i - 1
       [] call.method = "allWithIndex" ->
            post.kind = "value" /\ post.val.a[i].a[1] = Num(i - 1)
       [] call.method = "randomWithPath" ->
            /\ post.kind = "value"
            /\ (call.random * n) \div 4 = i - 1 => post.val.a[2].s \in fallbacks

(* C17, as stated -- When the identity lookup of a surviving record in the *)
(* original array fails, path(), randomWithPath(), index() and             *)
(* allWithIndex() raise no error and report the post-filter positional     *)
(* index of the record instead.                                            *)
C17_LookupFailureFallsBack ==
  \A k \in Events :
    (/\ hist[k].self # 0 /\ hist[k].call.method \in ProvenanceMethods
     /\ hist[k].pre.kind = "query" /\ IsDefined(hist[k].pre.items)
     /\ MaterializedOf(hist[k].pre).ok) =>
      LET M == MaterializedOf(hist[k].pre).v IN
      \A i \in 1..Len(M) :
        IndexOf(Get(hist[k].pre.items), M[i]) = 0 - 1 =>
          ReportsPosition(hist[k].call, hist[k].post, hist[k].pre.arrayPath,
                          i, Len(M))

\* The outcome `post` of the provenance call `call` reports, for the i-th
\* surviving record, the positional fallback in a path and -1 as an index.
ReportsFallback(call, post, arrayPath, i, n) ==
  CASE call.method \in {"path", "randomWithPath"} ->
         ReportsPosition(call, post, arrayPath, i, n)
    [] call.method = "index" ->
         post.kind = "IndexQuery" /\ post.indices[i] = 0 - 1
    [] call.method = "allWithIndex" ->
         post.kind = "value" /\ post.val.a[i].a[1] = Num(0 - 1)

(* C17 -- When the identity lookup of a surviving record in the original   *)
(* array fails, none of path(), randomWithPath(), index() and              *)
(* allWithIndex() raises an error: path() and randomWithPath() build the   *)
(* record's path from its post-filter positional index, while index() and  *)
(* allWithIndex() report -1 for it.                                        *)
C17_LookupFailureOutcome ==
  \A k \in Events :
    (/\ hist[k].self # 0 /\ hist[k].call.method \in ProvenanceMethods
     /\ hist[k].pre.kind = "query" /\ IsDefined(hist[k].pre.items)
     /\ MaterializedOf(hist[k].pre).ok) =>
      LET M == MaterializedOf(hist[k].pre).v IN
      \A i \in 1..Len(M) :
        IndexOf(Get(hist[k].pre.items), M[i]) = 0 - 1 =>
          ReportsFallback(hist[k].call, hist[k].post, hist[k].pre.arrayPath,
                          i, Len(M))

\* On a filtered instance whose first surviving element cannot be found in
\* the original array and lies at another position there, path() and
\* index() were called.
C17_Witness ==
  \E j, k \in Events :
    /\ IsBoundCall(j, "path") /\ IsBoundCall(k, "index")
    /\ hist[j].self = hist[k].self
    /\ hist[j].pre.clauses # <<>>
    /\ MaterializedOf(hist[j].pre).ok
    /\ MaterializedOf(hist[j].pre).v # <<>>
    /\ IndexOf(Get(hist[j].pre.items), MaterializedOf(hist[j].pre).v[1]) = 0 - 1
    /\ Get(hist[j].pre.items)[1] # MaterializedOf(hist[j].pre).v[1]
    /\ hist[j].post.kind = "PathQuery" /\ hist[j].post.paths[1] = "items[0]"
    /\ hist[k].post.kind = "IndexQuery" /\ hist[k].post.indices[1] = 0 - 1
----------------------------------------------------------------------------
\* The operations that exist in bound mode only.
BoundOnlyMethods ==
  {"pluck", "pick", "path", "index", "aggregate", "partition",
   "randomWithPath", "allWithIndex"}

\* A bound-only operation called on an unbound instance.
IsUnboundGuardCall(k) ==
  /\ hist[k].self # 0
  /\ hist[k].call.method \in BoundOnlyMethods
  /\ hist[k].pre.kind = "query" /\ ~IsDefined(hist[k].pre.items)

(* C18 -- Calling any Bound-only operation (pluck, pick, path, index,      *)
(* aggregate, partition, randomWithPath, allWithIndex) on an Unbound       *)
(* instance fails at the call itself, nothing being recorded, with an      *)
(* error whose message starts with the name of that operation; the errors  *)
(* of two different operations differ.                                     *)
C18_BoundOnlyFailsOnUnbound ==
  /\ \A k \in Events :
       IsUnboundGuardCall(k) =>
         /\ hist[k].post.kind = "error"
         /\ hist[k].post.msg =
              hist[k].call.method \o "() is only available on bound queries."
         /\ Deref(Heap, hist[k].self) = hist[k].pre
  /\ \A j, k \in Events :
       (/\ IsUnboundGuardCall(j) /\ IsUnboundGuardCall(k)
        /\ hist[j].call.method # hist[k].call.method) =>
         hist[j].post # hist[k].post

\* On an unbound pipeline that holds a recorded filter, pluck and another
\* bound-only operation were called.
C18_Witness ==
  \E j, k \in Events :
    /\ IsUnboundGuardCall(j) /\ IsUnboundGuardCall(k)
    /\ hist[j].self = hist[k].self
    /\ hist[j].pre.steps # <<>>
    /\ hist[j].call.method = "pluck" /\ hist[k].call.method # "pluck"
    /\ hist[j].post.kind = "error" /\ hist[k].post.kind = "error"

\* one() called with no message on a bound instance that materializes.
IsPlainOne(k) ==
  /\ IsBoundCall(k, "one") /\ ~IsDefined(hist[k].call.message)
  /\ MaterializedOf(hist[k].pre).ok

\* The number of records that match on the receiver of hist[k].
Matching(k) == Len(MaterializedOf(hist[k].pre).v)

(* C19 -- one() on a Bound instance returns the record if and only if      *)
(* exactly one record matches; with zero matches and with two or more      *)
(* matches it fails with an error that reports the number of matches       *)
(* found, so that the errors for different numbers of matches differ.      *)
C19_OneNeedsExactlyOne ==
  /\ \A k \in Events :
       IsPlainOne(k) =>
         IF Matching(k) = 1
         THEN hist[k].post =
                [kind |-> "value", val |-> MaterializedOf(hist[k].pre).v[1]]
         ELSE /\ hist[k].post.kind = "error"
              /\ hist[k].post.msg = ExpectedOne(Matching(k))
  /\ \A j, k \in Events :
       (IsPlainOne(j) /\ IsPlainOne(k) /\ Matching(j) # Matching(k)) =>
         hist[j].post # hist[k].post

\* one() failed on an instance with two matches and on an instance with no
\* match.
C19_Witness ==
  \E j, k \in Events :
    /\ IsPlainOne(j) /\ IsPlainOne(k)
    /\ Matching(j) = 0 /\ Matching(k) = 2
    /\ hist[j].post.kind = "error" /\ hist[k].post.kind = "error"

\* one() returned the single matching record of a filtered instance.
OneReturnedReached ==
  \E k \in Events :
    /\ IsPlainOne(k) /\ Matching(k) = 1
    /\ hist[k].pre.clauses # <<>>
    /\ hist[k].post.kind = "value"
----------------------------------------------------------------------------
\* The match object a single comparison stands for.
AtomClause(atom) ==
  CASE atom = AtomA -> Clause(P("type"), "$eq", Str("Premium"))
    [] atom = AtomB -> Clause(P("price"), "$gt", Num(100))
    [] atom = AtomC -> Clause(P("type"), "$eq", Str("Basic and Premium"))

\* Whether a record satisfies a single comparison.
AtomHolds(atom, item) ==
  CASE atom = AtomA -> item.o.type = Str("Premium")
    [] atom = AtomB -> item.o.price.n > 100
    [] atom = AtomC -> item.o.type = Str("Basic and Premium")

\* ((e1 op1 e2) op2 e3) ..., as a match object, for the first n comparisons.
RECURSIVE NestLeft(_, _)
NestLeft(in, n) ==
  IF n = 1 THEN AtomClause(in.atoms[1])
  ELSE IF in.ops[n - 1] = "and"
  THEN [and |-> <<NestLeft(in, n - 1), AtomClause(in.atoms[n])>>]
  ELSE [or |-> <<NestLeft(in, n - 1), AtomClause(in.atoms[n])>>]

\* Whether a record satisfies ((e1 op1 e2) op2 e3) ....
RECURSIVE HoldsLeft(_, _, _)
HoldsLeft(in, n, item) ==
  IF n = 1 THEN AtomHolds(in.atoms[1], item)
  ELSE IF in.ops[n - 1] = "and"
  THEN HoldsLeft(in, n - 1, item) /\ AtomHolds(in.atoms[n], item)
  ELSE HoldsLeft(in, n - 1, item) \/ AtomHolds(in.atoms[n], item)

\* The records of `items` that satisfy ((e1 op1 e2) op2 e3) ..., in order.
SelectLeft(in, items) ==
  LET F[k \in 0..Len(items)] ==
        IF k = 0 THEN <<>>
        ELSE IF HoldsLeft(in, Len(in.atoms), items[k])
             THEN Append(F[k - 1], items[k]) ELSE F[k - 1]
  IN F[Len(items)]

\* filter(expression) called on an instance without clauses, the expression
\* being that of the input `in`.
IsFilterOf(k, in) ==
  /\ IsBoundCall(k, "filter") /\ hist[k].pre.clauses = <<>>
  /\ hist[k].call.expression = Compose(in, Len(in.atoms))

----------------------------------------------------------------------------
\* The operator of the grammar that a spelling is a letter-case variant of.
WordOf(spelling) ==
  CASE spelling \in {"contains", "CONTAINS", "Contains"} -> "contains"
    [] spelling \in {"startsWith", "STARTSWITH", "startswith"} -> "startsWith"
    [] spelling \in {"endsWith", "ENDSWITH"} -> "endsWith"
    [] spelling \in {"not", "NOT"} -> "not"

\* filter("type <spelling> Pre") called on a bound instance without clauses.
IsWordFilter(k, spelling) ==
  /\ IsBoundCall(k, "filter") /\ hist[k].pre.clauses = <<>>
  /\ hist[k].call.expression = WordExpression(spelling)

(* C21 -- In a single-clause filter expression the word-form operators     *)
(* (not, contains, startsWith, endsWith) are recognized whatever their     *)
(* letter case: every spelling of one operator is accepted, and all of     *)
(* them compile to the same clause.                                        *)
C21_WordOperatorsAnyCase ==
  \A k, j \in Events : \A a, b \in OperatorSpellings :
    IsWordFilter(k, a) /\ IsWordFilter(j, b) /\ WordOf(a) = WordOf(b) =>
      /\ hist[k].post.kind = "query"
      /\ hist[j].post.kind = "query"
      /\ hist[k].post.clauses = hist[j].post.clauses

\* The spellings of the grammar itself are accepted.
GrammarSpellingsAccepted ==
  \A k \in Events : \A a \in {"contains", "startsWith", "endsWith", "not"} :
    IsWordFilter(k, a) => hist[k].post.kind = "query"

----------------------------------------------------------------------------
\* filter(expression) called on a bound instance with a malformed input.
IsMalformedFilter(k, in) ==
  IsBoundCall(k, "filter") /\ hist[k].call.expression = in.expression

(* C22, as stated -- A filter string in which no operator is recognized,   *)
(* a single clause or one atom of a composite expression, is rejected with *)
(* an error whose message contains that string exactly as it was written,  *)
(* and no clause is added.                                                 *)
C22_ErrorNamesInputVerbatim ==
  \A k \in Events : \A in \in MalformedInputs :
    IsMalformedFilter(k, in) =>
      /\ hist[k].post.kind = "error"
      /\ Includes(hist[k].post.msg, Join(in.written))

(* C22, amended -- A filter string in which no operator is recognized, a   *)
(* single clause or one atom of a composite expression, is rejected with   *)
(* an error whose message contains the offending clause verbatim except    *)
(* for the blanks around it, which are removed; no clause is added, and    *)
(* the receiver is left as it was.                                         *)
C22_ErrorNamesTrimmedClause ==
  \A k \in Events : \A in \in MalformedInputs :
    IsMalformedFilter(k, in) =>
      /\ hist[k].post.kind = "error"
      /\ Includes(hist[k].post.msg, "\"" \o Join(in.trimmed) \o "\"")
      /\ Deref(Heap, hist[k].self) = hist[k].pre

\* A composite whose second atom is malformed and written after a blank was
\* rejected, the message naming the atom without the blank.
C22_Witness ==
  \E k \in Events :
    /\ IsBoundCall(k, "filter")
    /\ hist[k].call.expression = AtomA \o <<" and ", " ", "bogus">>
    /\ hist[k].post.kind = "error"
    /\ Includes(hist[k].post.msg, "\"bogus\"")
    /\ ~Includes(hist[k].post.msg, " bogus")
----------------------------------------------------------------------------
\* Calls k and j are where-chains made on the same bound instance with the
\* same path and value, k through where and j through whereNot.
IsNegationPair(k, j, method) ==
  /\ IsBoundCall(k, method) /\ IsBoundCall(j, method)
  /\ hist[k].self = hist[j].self
  /\ ~hist[k].call.negate /\ hist[j].call.negate
  /\ hist[k].call.path = hist[j].call.path
  /\ hist[k].call.value = hist[j].call.value

\* The elements of `items` that do not occur in `taken`, in order.
Without(items, taken) ==
  LET F[n \in 0..Len(items)] ==
        IF n = 0 THEN <<>>
        ELSE IF \E t \in 1..Len(taken) : taken[t] = items[n]
             THEN F[n - 1] ELSE Append(F[n - 1], items[n])
  IN F[Len(items)]

(* C23 -- Negated equality is the logical complement of equality: over     *)
(* the records an instance materializes to, whereNot(path).equals(v)       *)
(* returns exactly those that where(path).equals(v) does not return, in    *)
(* their original order, so each record is in exactly one of the two.      *)
C23_NotEqualsIsComplement ==
  \A k, j \in Events :
    /\ IsNegationPair(k, j, "whereEquals")
    /\ hist[k].call.options = hist[j].call.options
    => LET base == Materialized(hist[k].self)
           eq == Materialized(k)
           ne == Materialized(j)
       IN /\ base.ok /\ eq.ok /\ ne.ok
          /\ \A t \in 1..Len(eq.v) : \E n \in 1..Len(base.v) : base.v[n] = eq.v[t]
          /\ ne.v = Without(base.v, eq.v)

\* Both calls were made with the type compared to "Premium": equality took
\* the two spellings, its negation the records with another type, a null
\* type and no type.
C23_Witness ==
  \E k, j \in Events :
    /\ IsNegationPair(k, j, "whereEquals")
    /\ hist[k].self = 1
    /\ hist[k].call.path = P("type")
    /\ hist[k].call.options = Undefined /\ hist[j].call.options = Undefined
    /\ Len(Materialized(k).v) = 2
    /\ Len(Materialized(j).v) = 3

----------------------------------------------------------------------------
\* The comparison that holds exactly when the given one fails between two
\* numbers.
Complementary(comparison) ==
  CASE comparison = "greaterThan" -> "lessThanOrEqual"
    [] comparison = "greaterThanOrEqual" -> "lessThan"
    [] comparison = "lessThan" -> "greaterThanOrEqual"
    [] comparison = "lessThanOrEqual" -> "greaterThan"

\* whereNot(p).<a>(v) as call k and where(p).<b>(v) as call j, on the same
\* bound instance.
IsFlippedPair(k, j) ==
  /\ IsBoundCall(k, "whereCompare") /\ IsBoundCall(j, "whereCompare")
  /\ hist[k].self = hist[j].self
  /\ hist[k].call.negate /\ ~hist[j].call.negate
  /\ hist[k].call.path = hist[j].call.path
  /\ hist[k].call.value = hist[j].call.value
  /\ hist[j].call.comparison = Complementary(hist[k].call.comparison)

(* C24 -- Negating a numeric comparison produces the complementary         *)
(* comparison operator, not a boolean NOT: whereNot(p).greaterThan(v)      *)
(* filters exactly like where(p).lessThanOrEqual(v), negated               *)
(* greaterThanOrEqual like lessThan, negated lessThan like                 *)
(* greaterThanOrEqual, and negated lessThanOrEqual like greaterThan.       *)
C24_NegatedComparisonFlips ==
  \A k, j \in Events :
    IsFlippedPair(k, j) =>
      /\ hist[k].post.kind = "query" /\ hist[j].post.kind = "query"
      /\ hist[k].post.clauses = hist[j].post.clauses
      /\ Materialized(k) = Materialized(j)

\* whereNot("price").greaterThan(100) and where("price").lessThanOrEqual(100)
\* were both called on the root: they keep the records priced 100 and 50,
\* not the ones with a null or missing price that fail greaterThan as well.
C24_Witness ==
  \E k, j \in Events :
    /\ IsFlippedPair(k, j)
    /\ hist[k].self = 1
    /\ hist[k].call.comparison = "greaterThan"
    /\ Materialized(k).ok
    /\ Len(Materialized(k).v) = 2
    /\ Len(Materialized(hist[k].self).v) = 5
----------------------------------------------------------------------------
\* What one segment reads from a value in plain JavaScript: value[key], or
\* value[key][index], undefined when there is nothing to read.
ReadSegment(v, seg) ==
  LET x == IF IsObj(v) /\ seg.key \in DOMAIN v.o THEN v.o[seg.key] ELSE Undef
  IN IF ~IsDefined(seg.idx) THEN x
     ELSE IF IsArr(x) /\ Get(seg.idx) < Len(x.a) THEN x.a[Get(seg.idx) + 1]
     ELSE Undef

\* What the first n segments of the path read from obj.
RECURSIVE ReadPath(_, _, _)
ReadPath(obj, segs, n) ==
  IF n = 0 THEN obj ELSE ReadSegment(ReadPath(obj, segs, n - 1), segs[n])

\* The leaf exists (its key is an own property, its index lies within the
\* array) and holds undefined, and nothing before it is null or undefined.
LeafPresentButUndefined(obj, segs) ==
  LET n == Len(segs)
      holder == ReadPath(obj, segs, n - 1)
      seg == segs[n]
  IN /\ \A m \in 0..(n - 1) : ~IsNullish(ReadPath(obj, segs, m))
     /\ IsObj(holder) /\ seg.key \in DOMAIN holder.o
     /\ IsDefined(seg.idx) =>
          IsArr(holder.o[seg.key]) /\ Get(seg.idx) < Len(holder.o[seg.key].a)
     /\ ReadPath(obj, segs, n) = Undef

IsLookup(k, method) == hist[k].self = 0 /\ hist[k].call.method = method

(* C25 -- Path resolution in lenient mode returns undefined without error  *)
(* for a leaf that is explicitly present but undefined, whereas strict     *)
(* mode raises a path error whenever any segment of the path, including    *)
(* the leaf, resolves to undefined (so what strict mode returns is never   *)
(* undefined).                                                             *)
C25_LenientLeafStrictAnySegment ==
  \A k \in Events :
    /\ IsLookup(k, "getByPath")
         /\ LeafPresentButUndefined(hist[k].call.obj, hist[k].call.path)
       => hist[k].post = [kind |-> "value", val |-> Undef]
    /\ IsLookup(k, "getByPathStrict")
         /\ (\E n \in 1..Len(hist[k].call.path) :
               ReadPath(hist[k].call.obj, hist[k].call.path, n) = Undef)
       => hist[k].post.kind = "error"
    /\ IsLookup(k, "getByPathStrict") /\ hist[k].post.kind = "value"
       => /\ hist[k].post.val # Undef
          /\ hist[k].post.val
               = ReadPath(hist[k].call.obj, hist[k].call.path, Len(hist[k].call.path))

\* "a.b" was read from { a: { b: undefined } } in both modes: the lenient
\* one returned undefined, the strict one threw.
C25_Witness ==
  \E k, j \in Events :
    /\ IsLookup(k, "getByPath") /\ IsLookup(j, "getByPathStrict")
    /\ hist[k].call.obj = Obj([a |-> Obj([b |-> Undef])])
    /\ hist[j].call.obj = hist[k].call.obj
    /\ hist[k].call.path = <<Seg("a"), Seg("b")>>
    /\ hist[j].call.path = hist[k].call.path
    /\ hist[k].post = [kind |-> "value", val |-> Undef]
    /\ hist[j].post = [kind |-> "error", msg |-> "property not found"]
----------------------------------------------------------------------------
(* C26 -- take(n) returns an empty result whenever n <= 0 and all matching *)
(* items whenever n >= their count; drop(n) returns all matching items     *)
(* whenever n <= 0 and an empty result whenever n >= their count.          *)
C26_TakeDropAtTheBounds ==
  \A k \in Events :
    IsBoundCall(k, "take") \/ IsBoundCall(k, "drop") =>
      LET matching == MaterializedOf(hist[k].pre)
          n == hist[k].call.n
          isTake == hist[k].call.method = "take"
      IN matching.ok =>
           /\ hist[k].post.kind = "query"
           /\ n <= 0 =>
                hist[k].post.items = Some(IF isTake THEN <<>> ELSE matching.v)
           /\ n >= Len(matching.v) =>
                hist[k].post.items = Some(IF isTake THEN matching.v ELSE <<>>)

\* The claim holds for the counts that are not negative.
TakeDropFromZeroOn ==
  \A k \in Events :
    (IsBoundCall(k, "take") \/ IsBoundCall(k, "drop")) /\ hist[k].call.n >= 0 =>
      LET matching == MaterializedOf(hist[k].pre)
          n == hist[k].call.n
          isTake == hist[k].call.method = "take"
      IN matching.ok =>
           /\ hist[k].post.kind = "query"
           /\ n <= 0 =>
                hist[k].post.items = Some(IF isTake THEN <<>> ELSE matching.v)
           /\ n >= Len(matching.v) =>
                hist[k].post.items = Some(IF isTake THEN matching.v ELSE <<>>)
----------------------------------------------------------------------------
SublistMethods == {"take", "drop", "takeWhile", "dropWhile"}

\* Call k is path() or index() made on the outcome of a sub-list operation
\* that was called on a query created by array(path) over a root.
IsProvenanceOfSublist(k) ==
  /\ hist[k].call.method \in {"path", "index"}
  /\ hist[k].self # 0
  /\ hist[hist[k].self].call.method \in SublistMethods
  /\ hist[hist[k].self].self # 0
  /\ hist[hist[hist[k].self].self].call.method = "array"
  /\ hist[hist[k].self].post.kind = "query"

(* C27 -- Provenance survives sub-list operations: after take, drop,       *)
(* takeWhile or dropWhile on a bound query created from a root path,       *)
(* path() and index() still report each record's position in the original  *)
(* source array (array("items").drop(2).path() starts at "items[2]"), not  *)
(* its position in the shortened list.                                     *)
C27_ProvenanceSurvivesSublists ==
  \A k \in Events :
    IsProvenanceOfSublist(k) =>
      LET sub == hist[k].self
          root == hist[sub].self
          source == Get(hist[root].post.items)
          kept == Get(hist[sub].post.items)
          arrayPath == hist[root].call.path
      IN IF hist[k].call.method = "path"
         THEN /\ hist[k].post.kind = "PathQuery"
              /\ hist[k].post.paths
                   = [i \in 1..Len(kept) |->
                        PathText(arrayPath) \o Bracket(IndexOf(source, kept[i]))]
         ELSE /\ hist[k].post.kind = "IndexQuery"
              /\ hist[k].post.indices
                   = [i \in 1..Len(kept) |-> IndexOf(source, kept[i])]

\* Without a sub-list operation in between, path() and index() do report
\* the positions in the source array.
ProvenanceOfRoot ==
  \A k \in Events :
    hist[k].call.method \in {"path", "index"} /\ hist[k].self # 0
      /\ hist[hist[k].self].call.method = "array" =>
      LET source == Get(hist[k].pre.items)
      IN IF hist[k].call.method = "path"
         THEN hist[k].post.paths
                = [i \in 1..Len(source) |->
                     PathText(hist[hist[k].self].call.path) \o Bracket(i - 1)]
         ELSE hist[k].post.indices = [i \in 1..Len(source) |-> i - 1]
----------------------------------------------------------------------------
\* The position of the first terminal among the calls, 0 if there is none.
FirstTerminal(calls) ==
  LET at == {i \in 1..Len(calls) : calls[i].method \in TerminalMethods}
  IN IF at = {} THEN 0 ELSE CHOOSE i \in at : \A j \in at : i <= j

(* C28 -- A terminal step can only be the last entry of a replayed step    *)
(* log: once a terminal has been recorded on an unbound pipeline no        *)
(* further step takes effect after it (the step log an unbound instance    *)
(* holds has no terminal before its last entry, and a run yields what the  *)
(* calls up to the first terminal yield), so replay never invokes a chain  *)
(* method on a terminal's concrete result.                                 *)
C28_TerminalIsLastStep ==
  /\ \A k \in Events :
       hist[k].post.kind = "query" /\ ~IsDefined(hist[k].post.items) =>
         \A i \in 1..(Len(hist[k].post.steps) - 1) :
           hist[k].post.steps[i].method \notin TerminalMethods
  /\ \A r \in Events :
       IsRunData(r) /\ IsPurePipeline(hist[r].self)
         /\ FirstTerminal(CallsOf(hist[r].self)) # 0 =>
         hist[r].post
           = Direct(logs[hist[r].call.input.v.ar],
                    SubSeq(CallsOf(hist[r].self), 1,
                           FirstTerminal(CallsOf(hist[r].self))))
----------------------------------------------------------------------------
\* run(input) called on an unbound instance.
IsUnboundRun(k) ==
  /\ IsRunData(k)
  /\ hist[k].pre.kind = "query" /\ ~IsDefined(hist[k].pre.items)

\* The value run is to take for its dataset: the input itself, or what the
\* input holds at the embedded path.
DatasetOf(k) ==
  IF ~IsDefined(hist[k].pre.arrayPath) THEN hist[k].call.input.v
  ELSE ReadPath(hist[k].call.input.v, Get(hist[k].pre.arrayPath),
                Len(Get(hist[k].pre.arrayPath)))

(* C29 -- run(input) on an unbound pipeline never silently treats a        *)
(* non-array input as a dataset: if the input (for a pipeline without      *)
(* embedded path) or the value found at the embedded path (for a recipe    *)
(* with one) is not an array, run fails with an error instead of returning *)
(* a result.                                                               *)
C29_RunRejectsNonArray ==
  \A k \in Events :
    IsUnboundRun(k) /\ ~IsArray(DatasetOf(k)) => hist[k].post.kind = "error"

\* A recipe with an embedded path does reject what is not an array at the
\* path.
RecipeRunRejectsNonArray ==
  \A k \in Events :
    IsUnboundRun(k) /\ IsDefined(hist[k].pre.arrayPath) /\ ~IsArray(DatasetOf(k))
      => hist[k].post = [kind |-> "error", msg |-> "Expected array at path"]
----------------------------------------------------------------------------
\* C30: when the builder returned by p.where(path) is finished twice, the
\* clause produced by the second call is the clause a builder fresh from
\* p.where(path) produces for the same value and options, whatever modifiers
\* (not, caseSensitive, noTrim) and per-call options the first call was made
\* with, and p is unchanged by both calls.

\* hist[k] finishes builder hist[k].self with equals.
IsFinish(k) == hist[k].call.method = "equals" /\ hist[k].post.kind = "query"

\* hist[j] and hist[k] are the first and the second finishing call of one
\* builder, with no modifier applied in between.
IsSecondFinish(j, k) ==
  /\ j < k /\ IsFinish(j) /\ IsFinish(k)
  /\ hist[j].self = hist[k].self
  /\ \A i \in 1..(k - 1) : hist[i].self = hist[k].self => i <= j

\* The query a builder's parent was when the call that returned it ended.
AsReturned(id) ==
  hist[CHOOSE i \in 1..Len(hist) :
         hist[i].ret = id /\ \A h \in 1..(i - 1) : hist[h].ret # id].post

\* The clause finishing call hist[k] added.
ClauseOf(k) == hist[k].post.clauses[Len(hist[k].post.clauses)]

\* The clause a builder fresh from where(path) on the same query adds for
\* the value and options of hist[k].
FreshClause(k) ==
  LET parent == hist[k].pre.parent
      B == where(Heap, parent, hist[k].pre.path)
      R == equals(B, B.ret, hist[k].call.value, hist[k].call.options)
  IN R.objs[R.ret].clauses[Len(R.objs[R.ret].clauses)]

C30_BuilderReuseDoesNotLeak ==
  \A j \in 1..Len(hist), k \in 1..Len(hist) :
    IsSecondFinish(j, k) =>
      /\ ClauseOf(k) = FreshClause(k)
      /\ Deref(Heap, hist[k].pre.parent) = AsReturned(hist[k].pre.parent)

\* The part that holds: neither finishing call changes the query the
\* builder came from, and each returns a query with one clause more.
BuilderLeavesParentUnchanged ==
  \A k \in 1..Len(hist) :
    IsFinish(k) =>
      /\ Deref(Heap, hist[k].pre.parent) = AsReturned(hist[k].pre.parent)
      /\ Len(hist[k].post.clauses)
           = Len(AsReturned(hist[k].pre.parent).clauses) + 1

====
